---- MODULE Spec2Model ----
(***************************************************************************)
(* State-machine model of the voice-cloner backend: the upload file saver  *)
(* (sequential and with two callers at once), the user and voice stores,   *)
(* the auth service's sign-in flow and session tokens, the handlers of the *)
(* auth and voice routes, the voice service's register, get and synthesize *)
(* flows, Firebase initialization, and get-or-create and register_voice    *)
(* stepped statement by statement for two callers at once.                 *)
(*                                                                         *)
(* Text (file names, e-mail addresses, MIME types, auth schemes) is a      *)
(* sequence of one-character strings, so that lower-casing and the         *)
(* stem/suffix split of a file name are computed, not assumed.             *)
(***************************************************************************)
EXTENDS Integers, Sequences, FiniteSets, TLC

VARIABLES
    fs,        \* upload directory: file name -> bytes of the file
    saveLog,   \* history: one entry per completed save_voice_file call
    users,     \* users table: user_id -> row
    voices,    \* sample_voices table: voice_id -> row
    nextUid,   \* number of user ids generated so far
    nextVid,   \* number of voice ids generated so far
    now,       \* wall clock, in minutes
    firebaseApps, \* whether firebase_admin holds an initialized app
    savers,    \* save_voice_file calls in flight: caller -> its locals
    callers,   \* get-or-create calls in flight: caller -> its locals
    registers, \* register_voice calls in flight: caller -> its locals
    resp       \* the last operation: its inputs and its outcome

vars == <<fs, saveLog, users, voices, nextUid, nextVid, now, firebaseApps,
          savers, callers, registers, resp>>

(***************************************************************************)
(* Bounds of the model.                                                    *)
(***************************************************************************)
MaxSaves == 3
MaxUsers == 2
MaxVoices == 2
MaxTime == 45
TickStep == 20
MaxFiles == 3

(***************************************************************************)
(* Text helpers.                                                           *)
(***************************************************************************)
UpperChars ==
    <<"A","B","C","D","E","F","G","H","I","J","K","L","M",
      "N","O","P","Q","R","S","T","U","V","W","X","Y","Z">>

LowerChars ==
    <<"a","b","c","d","e","f","g","h","i","j","k","l","m",
      "n","o","p","q","r","s","t","u","v","w","x","y","z">>

\* the lower-case letter of each upper-case letter
ToLower ==
    [c \in { UpperChars[i] : i \in DOMAIN UpperChars } |->
        LowerChars[CHOOSE i \in DOMAIN UpperChars : UpperChars[i] = c]]

\* str.lower() on one character
LowerChar(c) == IF c \in DOMAIN ToLower THEN ToLower[c] ELSE c

\* str.lower()
Lower(s) == [i \in DOMAIN s |-> LowerChar(s[i])]

DigitChars == <<"0","1","2","3","4","5","6","7","8","9">>

RECURSIVE DecimalStr(_)
\* str(n) for n >= 0
DecimalStr(n) ==
    IF n < 10 THEN <<DigitChars[n + 1]>>
    ELSE DecimalStr(n \div 10) \o <<DigitChars[(n % 10) + 1]>>

\* Python None where a text value is expected
None == <<"None">>

\* Python truthiness of an Optional[str]
Truthy(s) == s # None /\ s # <<>>

(***************************************************************************)
(* File saver: app/utils/file_utils.py                                     *)
(***************************************************************************)
\* str.rfind("."), 1-based; 0 when there is no dot
LastDot(name) ==
    IF \E i \in DOMAIN name : name[i] = "."
    THEN CHOOSE i \in DOMAIN name :
            name[i] = "." /\ \A j \in DOMAIN name : name[j] = "." => j <= i
    ELSE 0

\* pathlib: a dot that is neither the first nor the last character starts the suffix
HasSuffix(name) == LastDot(name) > 1 /\ LastDot(name) < Len(name)

\* Path.suffix
PathSuffix(name) ==
    IF HasSuffix(name) THEN SubSeq(name, LastDot(name), Len(name)) ELSE <<>>

\* Path.stem
PathStem(name) ==
    IF HasSuffix(name) THEN SubSeq(name, 1, LastDot(name) - 1) ELSE name

\* f"{stem}_{counter}{suffix}" of the path the loop is currently at
NumberedName(path, counter) ==
    PathStem(path) \o <<"_">> \o DecimalStr(counter) \o PathSuffix(path)

RECURSIVE FreePathMutant(_, _, _)
\* mutant: the existence check is made once only
FreePathMutant(dir, path, counter) ==
    IF path \in DOMAIN dir /\ counter = 1
    THEN FreePathMutant(dir, NumberedName(path, counter), counter + 1)
    ELSE path

RECURSIVE FreePath(_, _, _)
\* the while loop of save_voice_file: the first path, from `path` on, not in dir
FreePath(dir, path, counter) ==
    IF path \in DOMAIN dir
    THEN FreePath(dir, NumberedName(path, counter), counter + 1)
    ELSE path

\* the path save_voice_file writes to and returns
SavePath(dir, filename) == FreePath(dir, filename, 1)

\* mutant: an existing file is left as it is
WriteBytesMutant(dir, path, content) ==
    IF path \in DOMAIN dir THEN dir
    ELSE [p \in DOMAIN dir \cup {path} |-> IF p = path THEN content ELSE dir[p]]

\* file_path.write_bytes(file_content)
WriteBytes(dir, path, content) ==
    [p \in DOMAIN dir \cup {path} |-> IF p = path THEN content ELSE dir[p]]

\* Path.unlink()
Unlink(dir, path) == [p \in DOMAIN dir \ {path} |-> dir[p]]

\* uploaded file names
FilenameInputs ==
    { <<"s",".","w">>,                 \* s.w
      <<"s","_","1",".","w">>,         \* s_1.w
      <<"s">>,                         \* s     (no extension)
      <<".","w">> }                    \* .w    (a dot file: no suffix)

ContentInputs == {"bytesA", "bytesB"}

NoResp == [op |-> "none"]

\* what the upload directory holds when the service starts
InitialDirs == { <<>>, [p \in { <<"s",".","w">> } |-> "bytesOld"] }

\* the callers that can be inside save_voice_file at the same time
Savers == {1, 2}

\* a caller that is not inside save_voice_file
IdleSaver ==
    [pc |-> "idle", filename |-> <<>>, content |-> "none", file_path |-> <<>>,
     counter |-> 0, seen |-> 0]

\* the callers that can be inside get_or_create_user_from_google at the same
\* time (requests served by different workers against one database)
Callers == {1, 2}

\* a caller that is not inside get_or_create_user_from_google
IdleCaller ==
    [pc |-> "idle", email |-> <<"None">>, name |-> <<"None">>,
     picture |-> <<"None">>, found |-> 0, err |-> "none", user |-> 0]

\* the callers that can be inside register_voice at the same time
Registers == {1, 2}

\* a caller that is not inside register_voice
IdleRegister ==
    [pc |-> "idle", filename |-> <<>>, content |-> "none", file_path |-> <<>>,
     counter |-> 0, embed |-> "ok", err |-> "none"]

\* the stores, the directory and the clock when the service starts
InitStores ==
    /\ fs \in InitialDirs
    /\ saveLog = <<>>
    /\ users = <<>>
    /\ voices = <<>>
    /\ nextUid = 0
    /\ nextVid = 0
    /\ now = 0
    /\ savers = [p \in Savers |-> IdleSaver]
    /\ callers = [p \in Callers |-> IdleCaller]
    /\ registers = [p \in Registers |-> IdleRegister]
    /\ resp = NoResp

\* the service started without Firebase credentials (the settings' defaults)
Init == InitStores /\ firebaseApps = FALSE

\* the service started with or without Firebase credentials
InitAuth == InitStores /\ firebaseApps \in BOOLEAN

\* save_voice_file(file_content, filename, UPLOAD_DIR), called on its own
SaveVoiceFile(content, filename) ==
    /\ Len(saveLog) < MaxSaves
    /\ LET path == SavePath(fs, filename) IN
        /\ fs' = WriteBytes(fs, path, content)
        /\ saveLog' = Append(saveLog,
                [filename |-> filename, path |-> path, content |-> content,
                 existed |-> path \in DOMAIN fs])
        /\ resp' = [op |-> "save_voice_file", path |-> path]
    /\ UNCHANGED <<callers, registers, firebaseApps, savers, users, voices, nextUid, nextVid, now>>

NextFiles ==
    \E c \in ContentInputs, f \in FilenameInputs : SaveVoiceFile(c, f)

\* the file saver alone: any sequence of sequential save_voice_file calls
SpecFiles == Init /\ [][NextFiles]_vars

\* save_voice_file entered by caller p: file_path = upload_dir / filename,
\* counter = 1
SaveBegin(p, content, filename) ==
    /\ savers[p].pc = "idle"
    /\ savers' = [savers EXCEPT ![p] =
            [pc |-> "check", filename |-> filename, content |-> content,
             file_path |-> filename, counter |-> 1, seen |-> 0]]
    /\ UNCHANGED <<callers, registers, fs, saveLog, users, voices, nextUid, nextVid, now,
                   firebaseApps, resp>>

\* one test of `while file_path.exists()` by caller p, with the loop body
\* when the path exists; `seen` notes how many writes had completed when
\* the test found the path free
SaveExists(p) ==
    /\ savers[p].pc = "check"
    /\ savers' = [savers EXCEPT ![p] =
            IF @.file_path \in DOMAIN fs
            THEN [@ EXCEPT !.file_path = NumberedName(@, savers[p].counter),
                           !.counter = @ + 1]
            ELSE [@ EXCEPT !.pc = "write", !.seen = Len(saveLog)]]
    /\ UNCHANGED <<callers, registers, fs, saveLog, users, voices, nextUid, nextVid, now,
                   firebaseApps, resp>>

\* file_path.write_bytes(file_content) and the return, by caller p
SaveWrite(p) ==
    /\ savers[p].pc = "write"
    /\ fs' = WriteBytes(fs, savers[p].file_path, savers[p].content)
    /\ saveLog' = Append(saveLog,
            [filename |-> savers[p].filename, path |-> savers[p].file_path,
             content |-> savers[p].content,
             existed |-> savers[p].file_path \in DOMAIN fs])
    /\ savers' = [savers EXCEPT ![p].pc = "done"]
    /\ resp' = [op |-> "save_voice_file", path |-> savers[p].file_path]
    /\ UNCHANGED <<callers, registers, users, voices, nextUid, nextVid, now, firebaseApps>>

NextRace ==
    \/ \E p \in Savers, c \in ContentInputs,
          f \in {<<"s",".","w">>, <<"s","_","1",".","w">>} : SaveBegin(p, c, f)
    \/ \E p \in Savers : SaveExists(p)
    \/ \E p \in Savers : SaveWrite(p)

\* save_voice_file called by two callers at once, one call each
SpecRace == Init /\ [][NextRace]_vars

(***************************************************************************)
(* C1: over any sequence of save_voice_file calls into the directory,      *)
(* every call returned a path that did not exist before it, the returned   *)
(* paths are pairwise distinct, and every saved file still holds the bytes *)
(* it was saved with.                                                      *)
(***************************************************************************)
C1_SaveNeverOverwrites ==
    /\ \A i \in DOMAIN saveLog : ~saveLog[i].existed
    /\ \A i, j \in DOMAIN saveLog : i # j => saveLog[i].path # saveLog[j].path
    /\ \A i \in DOMAIN saveLog :
          /\ saveLog[i].path \in DOMAIN fs
          /\ fs[saveLog[i].path] = saveLog[i].content

\* two different contents saved under one file name, twice colliding
C1_Witness ==
    \E i, j, k \in DOMAIN saveLog :
        /\ i < j /\ j < k
        /\ saveLog[i].filename = saveLog[j].filename
        /\ saveLog[j].filename = saveLog[k].filename
        /\ saveLog[i].content # saveLog[j].content

(***************************************************************************)
(* Users table and UserStorage: app/models/database.py, app/models/storage.py *)
(***************************************************************************)
\* no identifier (a missing claim, an absent row)
NoId == 0

\* the provider tag "google"
Google == <<"google">>

NoUser ==
    [user_id |-> NoId, email |-> None, name |-> None, picture |-> None,
     provider |-> None, created_at |-> 0]

\* the row UserModel(email=..., name=..., picture=..., provider=...) inserts
UserRow(uid, email, name, picture, provider, t) ==
    [user_id |-> uid, email |-> email, name |-> name, picture |-> picture,
     provider |-> provider, created_at |-> t]

\* mutant: the lookup compares the e-mail as given, without lower-casing it
UserGetByEmailMutant(tbl, email) ==
    IF email # None /\ \E u \in DOMAIN tbl : tbl[u].email = email
    THEN tbl[CHOOSE u \in DOMAIN tbl : tbl[u].email = email]
    ELSE NoUser

\* UserStorage.get_by_email: filter(UserModel.email == email.lower()).first()
UserGetByEmail(tbl, email) ==
    IF \E u \in DOMAIN tbl : tbl[u].email = Lower(email)
    THEN tbl[CHOOSE u \in DOMAIN tbl : tbl[u].email = Lower(email)]
    ELSE NoUser

\* UserStorage.get: filter(UserModel.user_id == user_id).first()
UserGet(tbl, uid) == IF uid \in DOMAIN tbl THEN tbl[uid] ELSE NoUser

\* mutant: the e-mail column is not unique, a second insert succeeds
UserStorageCreateMutant(tbl, n, email, name, picture, provider, t) ==
    IF email = None
    THEN [err |-> "AttributeError", tbl |-> tbl, n |-> n, user |-> NoUser]
    ELSE LET row == UserRow(n + 1, Lower(email), name, picture, provider, t) IN
         [err |-> "none", n |-> n + 1, user |-> row,
          tbl |-> [u \in DOMAIN tbl \cup {n + 1} |->
                        IF u = n + 1 THEN row ELSE tbl[u]]]

\* UserStorage.create: the row holds email.lower(); the commit fails on the
\* unique e-mail column, the transaction is rolled back and the error re-raised
UserStorageCreate(tbl, n, email, name, picture, provider, t) ==
    IF email = None
    THEN [err |-> "AttributeError", tbl |-> tbl, n |-> n, user |-> NoUser]
    ELSE IF \E u \in DOMAIN tbl : tbl[u].email = Lower(email)
    THEN [err |-> "IntegrityError", tbl |-> tbl, n |-> n, user |-> NoUser]
    ELSE LET row == UserRow(n + 1, Lower(email), name, picture, provider, t) IN
         [err |-> "none", n |-> n + 1, user |-> row,
          tbl |-> [u \in DOMAIN tbl \cup {n + 1} |->
                        IF u = n + 1 THEN row ELSE tbl[u]]]

\* mutant: every argument overwrites, None included
UserStorageUpdateMutant(tbl, uid, name, picture) ==
    IF uid \in DOMAIN tbl
    THEN [tbl EXCEPT ![uid].name = name, ![uid].picture = picture]
    ELSE tbl

\* UserStorage.update: only the arguments that are not None overwrite
UserStorageUpdate(tbl, uid, name, picture) ==
    IF uid \in DOMAIN tbl
    THEN [tbl EXCEPT ![uid].name = IF name # None THEN name ELSE @,
                     ![uid].picture = IF picture # None THEN picture ELSE @]
    ELSE tbl

\* mutant: the e-mail is not checked before the store is used
GetOrCreateUserUncheckedMutant(tbl, n, info, t) ==
    IF info.email = None
    THEN [err |-> "AttributeError", tbl |-> tbl, n |-> n, user |-> NoUser]
    ELSE LET found == UserGetByEmail(tbl, info.email) IN
         IF found # NoUser
         THEN LET upd == UserStorageUpdate(tbl, found.user_id,
                                           info.name, info.picture) IN
              [err |-> "none", tbl |-> upd, n |-> n,
               user |-> UserGet(upd, found.user_id)]
         ELSE UserStorageCreate(tbl, n, info.email, info.name, info.picture,
                                Google, t)

\* mutant: the user is looked up by the e-mail as given, not lower-cased
GetOrCreateUserMutant(tbl, n, info, t) ==
    IF ~Truthy(info.email)
    THEN [err |-> "ValidationError", tbl |-> tbl, n |-> n, user |-> NoUser]
    ELSE LET found == UserGetByEmailMutant(tbl, info.email) IN
         IF found # NoUser
         THEN LET upd == UserStorageUpdate(tbl, found.user_id,
                                           info.name, info.picture) IN
              [err |-> "none", tbl |-> upd, n |-> n,
               user |-> UserGet(upd, found.user_id)]
         ELSE UserStorageCreate(tbl, n, info.email, info.name, info.picture,
                                Google, t)

\* AuthService.get_or_create_user_from_google
GetOrCreateUser(tbl, n, info, t) ==
    IF ~Truthy(info.email)
    THEN [err |-> "ValidationError", tbl |-> tbl, n |-> n, user |-> NoUser]
    ELSE LET found == UserGetByEmail(tbl, info.email) IN
         IF found # NoUser
         THEN LET upd == UserStorageUpdate(tbl, found.user_id,
                                           info.name, info.picture) IN
              [err |-> "none", tbl |-> upd, n |-> n,
               user |-> UserGet(upd, found.user_id)]
         ELSE UserStorageCreate(tbl, n, info.email, info.name, info.picture,
                                Google, t)

\* e-mail addresses presented to the store: a@x in three casings, b@x, "", None
EmailInputs ==
    { <<"a","@","x">>, <<"A","@","x">>, <<"A","@","X">>,
      <<"b","@","x">>, <<>>, None }

NameInputs == { None, <<"n">>, <<"m">> }

PictureInputs == { None, <<"p">> }

\* user_storage.create(email, name, picture), called on its own
UserCreate(email, name, picture) ==
    LET r == UserStorageCreate(users, nextUid, email, name, picture, Google, now) IN
    /\ r.n <= MaxUsers
    /\ users' = r.tbl
    /\ nextUid' = r.n
    /\ resp' = [op |-> "user_create", email |-> email, err |-> r.err,
                user |-> r.user]
    /\ UNCHANGED <<callers, registers, firebaseApps, savers, fs, saveLog, voices, nextVid, now>>

\* auth_service.get_or_create_user_from_google(info)
GetOrCreate(email, name, picture) ==
    LET r == GetOrCreateUser(users, nextUid,
                 [email |-> email, name |-> name, picture |-> picture], now) IN
    /\ r.n <= MaxUsers
    /\ users' = r.tbl
    /\ nextUid' = r.n
    /\ resp' = [op |-> "get_or_create", email |-> email, name |-> name,
                picture |-> picture, err |-> r.err, user |-> r.user]
    /\ UNCHANGED <<callers, registers, firebaseApps, savers, fs, saveLog, voices, nextVid, now>>

(***************************************************************************)
(* Session tokens: app/services/auth_service.py, app/core/config.py        *)
(***************************************************************************)
ACCESS_TOKEN_EXPIRE_MINUTES == 30
REFRESH_TOKEN_EXPIRE_DAYS == 30
MinutesPerDay == 1440

\* settings.SECRET_KEY, and a key the service does not hold
SECRET_KEY == "SECRET_KEY"
OtherKey == "other-key"

\* the HS256 signature of a payload under a key
Sign(key, payload) == [key |-> key, over |-> payload]

\* jwt.encode(to_encode, key, algorithm)
JwtEncode(payload, key) == [payload |-> payload, sig |-> Sign(key, payload)]

\* AuthService.create_access_token
CreateAccessToken(user, t) ==
    JwtEncode([sub |-> user.user_id, email |-> user.email,
               exp |-> t + ACCESS_TOKEN_EXPIRE_MINUTES, iat |-> t,
               type |-> "access"], SECRET_KEY)

\* AuthService.create_refresh_token
CreateRefreshToken(user, t) ==
    JwtEncode([sub |-> user.user_id, email |-> user.email,
               exp |-> t + REFRESH_TOKEN_EXPIRE_DAYS * MinutesPerDay, iat |-> t,
               type |-> "refresh"], SECRET_KEY)

NoPayload == [sub |-> NoId, email |-> None, exp |-> 0, iat |-> 0, type |-> "none"]

\* mutant: the expiry claim is not checked
VerifyAccessTokenMutant(token, t) ==
    IF token.sig = Sign(SECRET_KEY, token.payload)
    THEN token.payload
    ELSE NoPayload

\* AuthService.verify_access_token: jwt.decode checks the signature under
\* SECRET_KEY and rejects a token whose exp is before the current time;
\* every JWTError becomes None
VerifyAccessToken(token, t) ==
    IF token.sig = Sign(SECRET_KEY, token.payload) /\ ~(token.payload.exp < t)
    THEN token.payload
    ELSE NoPayload

\* AuthService.get_current_user
GetCurrentUserOf(tbl, token, t) ==
    LET payload == VerifyAccessToken(token, t) IN
    IF payload = NoPayload THEN NoUser
    ELSE IF payload.sub = NoId THEN NoUser
    ELSE UserGet(tbl, payload.sub)

\* identity assertions presented to the Google verifier: whether the library
\* accepts the token, and the claims it carries
GoogleIssuers == {"accounts.google.com", "https://accounts.google.com"}

IdTokenInputs ==
    [verifies : BOOLEAN, iss : {"accounts.google.com", "example.org"},
     email : { <<"a","@","x">>, <<"A","@","X">>, <<"b","@","x">>, None },
     name : {None}, picture : {None}]

\* AuthService.verify_google_token: any failure is an authentication error
VerifyGoogleToken(idt) ==
    IF idt.verifies /\ idt.iss \in GoogleIssuers
    THEN [err |-> "none", info |-> idt]
    ELSE [err |-> "AuthenticationError", info |-> idt]

\* AuthService.authenticate_with_google_token(token, is_firebase_token=False):
\* verify, get or create the user, mint an access token
AuthenticateWithGoogleToken(idt) ==
    LET v == VerifyGoogleToken(idt)
        r == IF v.err = "none"
             THEN GetOrCreateUser(users, nextUid,
                      [email |-> idt.email, name |-> idt.name,
                       picture |-> idt.picture], now)
             ELSE [err |-> v.err, tbl |-> users, n |-> nextUid, user |-> NoUser]
    IN
    /\ r.n <= MaxUsers
    /\ users' = r.tbl
    /\ nextUid' = r.n
    /\ resp' = [op |-> "authenticate", err |-> r.err, user |-> r.user,
                token |-> IF r.err = "none" THEN CreateAccessToken(r.user, now)
                          ELSE JwtEncode(NoPayload, OtherKey)]
    /\ UNCHANGED <<callers, registers, firebaseApps, savers, fs, saveLog, voices, nextVid, now>>

\* the times a token can have been issued at
IssueTimes == { t \in 0..MaxTime : t % TickStep = 0 }

\* tokens presented as bearer credentials: issued by the service at some
\* earlier time, signed under another key, or altered after signing
TokenInputs ==
    LET issued ==
            { JwtEncode([sub |-> s, email |-> None, exp |-> i + d, iat |-> i,
                         type |-> ty], k) :
                s \in 0..MaxUsers, i \in {t \in IssueTimes : t <= now},
                d \in {ACCESS_TOKEN_EXPIRE_MINUTES}, ty \in {"access", "refresh"},
                k \in {SECRET_KEY, OtherKey} }
    IN issued \cup
       { [tok EXCEPT !.payload.exp = MaxTime + 1] : tok \in issued }

\* auth_service.get_current_user(token)
GetCurrentUser(token) ==
    /\ resp' = [op |-> "get_current_user", token |-> token, err |-> "none",
                user |-> GetCurrentUserOf(users, token, now)]
    /\ UNCHANGED <<callers, registers, firebaseApps, savers, fs, saveLog, users, voices, nextUid,
                   nextVid, now>>

\* time passes
Tick ==
    /\ now + TickStep <= MaxTime
    /\ now' = now + TickStep
    /\ resp' = [op |-> "tick"]
    /\ UNCHANGED <<callers, registers, firebaseApps, savers, fs, saveLog, users, voices, nextUid, nextVid>>

(***************************************************************************)
(* Upload validation: app/utils/file_utils.py, app/api/dependencies.py     *)
(***************************************************************************)
\* valid_types of validate_audio_file
ValidTypes ==
    { <<"a","u","d","i","o","/","w","a","v">>,
      <<"a","u","d","i","o","/","w","a","v","e">>,
      <<"a","u","d","i","o","/","x","-","w","a","v">>,
      <<"a","u","d","i","o","/","m","p","e","g">>,
      <<"a","u","d","i","o","/","m","p","3">>,
      <<"a","u","d","i","o","/","m","p","4">>,
      <<"a","u","d","i","o","/","x","-","m","4","a">>,
      <<"a","u","d","i","o","/","m","4","a">>,
      <<"a","u","d","i","o","/","o","g","g">>,
      <<"a","u","d","i","o","/","w","e","b","m">>,
      <<"a","u","d","i","o","/","f","l","a","c">> }

\* mutant: the content type is compared as given, not lower-cased
ValidateAudioFileMutant(content_type) == content_type \in ValidTypes

\* validate_audio_file(content_type)
ValidateAudioFile(content_type) == Lower(content_type) \in ValidTypes

\* content types of uploaded parts: audio/wav, AUDIO/WAV, text/plain, none given
ContentTypeInputs == { <<"a","u","d","i","o","/","w","a","v">>, <<"A","U","D","I","O","/","W","A","V">>, <<"t","e","x","t","/","p","l","a","i","n">>, None }

\* `x or ""`
OrEmpty(s) == IF Truthy(s) THEN s ELSE <<>>

\* validate_uploaded_file(file): the exception it raises, "none" when it returns
ValidateUploadedFile(filename, content_type) ==
    IF ~Truthy(filename) THEN "ValidationError"
    ELSE IF ~ValidateAudioFile(OrEmpty(content_type)) THEN "InvalidAudioFileError"
    ELSE "none"

\* Authorization headers: `given` is the truthiness of the header value (a
\* header was sent and is not empty), `scheme` and `token` are the parts
\* authorization.split() yields when it yields exactly two
Bearer == <<"b","e","a","r","e","r">>
BearerUpper == <<"B","E","A","R","E","R">>
Basic == <<"B","a","s","i","c">>

\* mutant: the scheme is compared as given, not lower-cased
BearerUserMutant(tbl, header, t) ==
    IF ~header.given THEN NoUser
    ELSE IF header.nparts # 2 THEN NoUser
    ELSE IF header.scheme # Bearer THEN NoUser
    ELSE GetCurrentUserOf(tbl, header.token, t)

\* dependencies.get_current_user: the user of a bearer credential, NoUser
\* where the dependency raises HTTPException(401)
BearerUser(tbl, header, t) ==
    IF ~header.given THEN NoUser
    ELSE IF header.nparts # 2 THEN NoUser
    ELSE IF Lower(header.scheme) # Bearer THEN NoUser
    ELSE GetCurrentUserOf(tbl, header.token, t)

(***************************************************************************)
(* Voices table and VoiceStorage: app/models/database.py, storage.py       *)
(***************************************************************************)
\* None where a number is expected (duration, sample_rate)
NoNumber == -1

NoVoice ==
    [voice_id |-> NoId, filename |-> None, file_path |-> None,
     embedding_path |-> None, duration |-> NoNumber, sample_rate |-> NoNumber,
     name |-> None, description |-> None]

\* a keyword argument of a call, or its default when the caller omits it
Arg(kwargs, key, default) ==
    IF key \in DOMAIN kwargs THEN kwargs[key] ELSE default

\* Python's binding of keyword arguments to a signature: a TypeError for an
\* unexpected keyword or a missing required parameter
BindsTo(kwargs, params, required) ==
    DOMAIN kwargs \subseteq params /\ required \subseteq DOMAIN kwargs

\* VoiceRecord.from_model: the row without its user_id
VoiceRecordOf(row) ==
    [voice_id |-> row.voice_id, filename |-> row.filename,
     file_path |-> row.file_path, embedding_path |-> row.embedding_path,
     duration |-> row.duration, sample_rate |-> row.sample_rate,
     name |-> row.name, description |-> row.description]

\* the signature of VoiceStorage.create
VoiceCreateParams ==
    {"user_id", "filename", "file_path", "embedding_path", "duration",
     "sample_rate", "name", "description"}

VoiceCreateRequired == {"user_id", "filename", "file_path"}

\* VoiceStorage.create(**kwargs): the insert fails (and is rolled back) when
\* user_id does not reference a users row or a NOT NULL column is None
VoiceStorageCreate(tbl, utbl, n, kwargs) ==
    IF ~BindsTo(kwargs, VoiceCreateParams, VoiceCreateRequired)
    THEN [err |-> "TypeError", tbl |-> tbl, n |-> n, record |-> NoVoice]
    ELSE IF \/ kwargs.user_id \notin DOMAIN utbl
            \/ kwargs.filename = None
            \/ kwargs.file_path = None
    THEN [err |-> "IntegrityError", tbl |-> tbl, n |-> n, record |-> NoVoice]
    ELSE LET row ==
                [voice_id |-> n + 1, user_id |-> kwargs.user_id,
                 filename |-> kwargs.filename, file_path |-> kwargs.file_path,
                 embedding_path |-> Arg(kwargs, "embedding_path", None),
                 duration |-> Arg(kwargs, "duration", NoNumber),
                 sample_rate |-> Arg(kwargs, "sample_rate", NoNumber),
                 name |-> Arg(kwargs, "name", None),
                 description |-> Arg(kwargs, "description", None)]
         IN [err |-> "none", n |-> n + 1, record |-> VoiceRecordOf(row),
             tbl |-> [v \in DOMAIN tbl \cup {n + 1} |->
                           IF v = n + 1 THEN row ELSE tbl[v]]]

\* mutant: the lookup returns the first row, whatever its id
VoiceStorageGetMutant(tbl, vid) ==
    IF DOMAIN tbl # {}
    THEN VoiceRecordOf(tbl[CHOOSE v \in DOMAIN tbl : \A w \in DOMAIN tbl : v <= w])
    ELSE NoVoice

\* VoiceStorage.get: filter(voice_id == voice_id).first()
VoiceStorageGet(tbl, vid) ==
    IF vid \in DOMAIN tbl THEN VoiceRecordOf(tbl[vid]) ELSE NoVoice

\* VoiceStorage.list_by_user: filter(user_id == user_id).all(), as a set
VoiceStorageListByUser(tbl, uid) ==
    { VoiceRecordOf(tbl[v]) : v \in { w \in DOMAIN tbl : tbl[w].user_id = uid } }

\* mutant: the foreign key has no ON DELETE CASCADE, the voices stay
OnDeleteUserMutant(tbl, uid) == tbl

\* ForeignKey("users.user_id", ondelete="CASCADE"): the voices left when the
\* users row uid is deleted
OnDeleteUser(tbl, uid) ==
    [v \in { w \in DOMAIN tbl : tbl[w].user_id # uid } |-> tbl[v]]

\* deleting a users row (the user store's delete(id) of the specification)
DeleteUser(uid) ==
    /\ uid \in DOMAIN users
    /\ users' = [u \in DOMAIN users \ {uid} |-> users[u]]
    /\ voices' = OnDeleteUser(voices, uid)
    /\ resp' = [op |-> "delete_user", user_id |-> uid,
                owned |-> { v \in DOMAIN voices : voices[v].user_id = uid }]
    /\ UNCHANGED <<callers, registers, firebaseApps, savers, fs, saveLog, nextUid, nextVid, now>>

VoiceFilenameInputs == { <<"s",".","w">>, <<"t",".","w">> }

\* storage.create(user_id=..., filename=..., file_path=...), called on its own
VoiceCreate(uid, filename) ==
    LET r == VoiceStorageCreate(voices, users, nextVid,
                 [user_id |-> uid, filename |-> filename, file_path |-> filename])
    IN
    /\ r.n <= MaxVoices
    /\ voices' = r.tbl
    /\ nextVid' = r.n
    /\ resp' = [op |-> "voice_create", user_id |-> uid, err |-> r.err,
                record |-> r.record]
    /\ UNCHANGED <<callers, registers, firebaseApps, savers, fs, saveLog, users, nextUid, now>>

(***************************************************************************)
(* Errors: app/core/exceptions.py, app/api/dependencies.py                 *)
(***************************************************************************)
HTTP_201_CREATED == 201
HTTP_400_BAD_REQUEST == 400
HTTP_401_UNAUTHORIZED == 401
HTTP_404_NOT_FOUND == 404
HTTP_500_INTERNAL_SERVER_ERROR == 500

\* the status an exception leaves the application with: the status_code of
\* an HTTPException, 422 for a request the schema rejects, 500 for an
\* exception no handler takes
StatusOf(err) ==
    CASE err = "VoiceNotFoundError" -> HTTP_404_NOT_FOUND
      [] err = "InvalidAudioFileError" -> HTTP_400_BAD_REQUEST
      [] err = "ValidationError" -> HTTP_400_BAD_REQUEST
      [] err = "EmbeddingComputationError" -> HTTP_500_INTERNAL_SERVER_ERROR
      [] err = "SynthesisError" -> HTTP_500_INTERNAL_SERVER_ERROR
      [] err = "Unauthorized" -> HTTP_401_UNAUTHORIZED
      [] err = "RequestValidationError" -> 422
      [] OTHER -> HTTP_500_INTERNAL_SERVER_ERROR

\* the exceptions that are fastapi HTTPExceptions: the classes of
\* app/core/exceptions.py and the HTTPException(401) of the bearer dependency
HttpExceptions ==
    {"VoiceNotFoundError", "InvalidAudioFileError", "EmbeddingComputationError",
     "SynthesisError", "ValidationError", "Unauthorized", "HTTPException"}

\* the keys of the JSON body an error response carries: ErrorResponse from
\* the application's HTTPException handler, {"detail": [...]} from the
\* framework's handler of request validation errors, and no JSON at all
\* (plain text) for an exception no handler takes
ErrorBodyKeys(err) ==
    IF err \in HttpExceptions THEN {"error", "detail"}
    ELSE IF err = "RequestValidationError" THEN {"detail"}
    ELSE {}

\* the keys of a response body: the payload of a success, else the error body
BodyKeys(err) == IF err = "none" THEN {"payload"} ELSE ErrorBodyKeys(err)

(***************************************************************************)
(* Voice service: app/services/voice_service.py, app/services/engine.py    *)
(***************************************************************************)
\* what a call into the inference boundary does: it returns, or it raises
\* the named exception
EngineOutcomes == {"ok", "Exception", "VoiceNotFoundError"}

\* str(settings.EMBEDDING_DIR / f"{Path(file_path).stem}.npy")
EmbeddingPath(path) == PathStem(path) \o <<".","n","p","y">>

\* the signature of VoiceService.register_voice
RegisterVoiceParams == {"file_content", "filename", "name", "description"}

RegisterVoiceRequired == {"file_content", "filename"}

\* what register_voice passes to storage.create
RegisterCreateArgs(kwargs, path) ==
    [filename |-> kwargs.filename, file_path |-> path,
     embedding_path |-> EmbeddingPath(path), duration |-> NoNumber,
     sample_rate |-> NoNumber, name |-> Arg(kwargs, "name", None),
     description |-> Arg(kwargs, "description", None)]

\* mutant: the except branch raises without removing the saved file
RegisterCleanupMutant(dir, path, unlinkOk) == [err |-> "none", dir |-> dir]

\* the except branch of register_voice: unlink the saved file if it exists;
\* an exception of unlink itself leaves the branch in place of the error
RegisterCleanup(dir, path, unlinkOk) ==
    IF path \in DOMAIN dir
    THEN IF unlinkOk THEN [err |-> "none", dir |-> Unlink(dir, path)]
         ELSE [err |-> "OSError", dir |-> dir]
    ELSE [err |-> "none", dir |-> dir]

\* mutant: storage.create sits outside the try, so a failure to persist the
\* record is not followed by the cleanup
RegisterVoiceMutant(dir, vtbl, utbl, n, kwargs, embed, unlinkOk) ==
    IF ~BindsTo(kwargs, RegisterVoiceParams, RegisterVoiceRequired)
    THEN [err |-> "TypeError", cause |-> "none", dir |-> dir, tbl |-> vtbl,
          n |-> n, record |-> NoVoice, saved |-> None, engine_calls |-> 0]
    ELSE
    LET path == SavePath(dir, kwargs.filename)
        dir1 == WriteBytes(dir, path, kwargs.file_content)
        tried == IF embed # "ok"
                 THEN [err |-> embed, tbl |-> vtbl, n |-> n, record |-> NoVoice]
                 ELSE VoiceStorageCreate(vtbl, utbl, n,
                                         RegisterCreateArgs(kwargs, path))
        clean == RegisterCleanup(dir1, path, unlinkOk)
    IN
    IF tried.err = "none"
    THEN [err |-> "none", cause |-> "none", dir |-> dir1, tbl |-> tried.tbl,
          n |-> tried.n, record |-> tried.record, saved |-> path,
          engine_calls |-> 1]
    ELSE IF embed = "ok"
    THEN [err |-> tried.err, cause |-> tried.err, dir |-> dir1, tbl |-> vtbl,
          n |-> n, record |-> NoVoice, saved |-> path, engine_calls |-> 1]
    ELSE [err |-> IF clean.err = "none" THEN "EmbeddingComputationError"
                  ELSE clean.err,
          cause |-> tried.err, dir |-> clean.dir, tbl |-> vtbl, n |-> n,
          record |-> NoVoice, saved |-> path, engine_calls |-> 1]

\* VoiceService.register_voice(**kwargs)
RegisterVoice(dir, vtbl, utbl, n, kwargs, embed, unlinkOk) ==
    IF ~BindsTo(kwargs, RegisterVoiceParams, RegisterVoiceRequired)
    THEN [err |-> "TypeError", cause |-> "none", dir |-> dir, tbl |-> vtbl,
          n |-> n, record |-> NoVoice, saved |-> None, engine_calls |-> 0]
    ELSE
    LET path == SavePath(dir, kwargs.filename)
        dir1 == WriteBytes(dir, path, kwargs.file_content)
        tried == IF embed # "ok"
                 THEN [err |-> embed, tbl |-> vtbl, n |-> n, record |-> NoVoice]
                 ELSE VoiceStorageCreate(vtbl, utbl, n,
                                         RegisterCreateArgs(kwargs, path))
        clean == RegisterCleanup(dir1, path, unlinkOk)
    IN
    IF tried.err = "none"
    THEN [err |-> "none", cause |-> "none", dir |-> dir1, tbl |-> tried.tbl,
          n |-> tried.n, record |-> tried.record, saved |-> path,
          engine_calls |-> 1]
    ELSE [err |-> IF clean.err = "none" THEN "EmbeddingComputationError"
                  ELSE clean.err,
          cause |-> tried.err, dir |-> clean.dir, tbl |-> vtbl, n |-> n,
          record |-> NoVoice, saved |-> path, engine_calls |-> 1]

\* VoiceService.get_voice
GetVoice(vtbl, vid) ==
    LET record == VoiceStorageGet(vtbl, vid) IN
    IF record = NoVoice
    THEN [err |-> "VoiceNotFoundError", about |-> vid, record |-> NoVoice]
    ELSE [err |-> "none", about |-> NoId, record |-> record]

WhitespaceChars == {" ", "\t", "\n"}

\* not text or not text.strip()
IsBlank(text) == \A i \in DOMAIN text : text[i] \in WhitespaceChars

\* mutant: the text is not validated, blank text reaches the engine
SynthesizeUncheckedMutant(vtbl, vid, text, embed, synth) ==
    IF VoiceStorageGet(vtbl, vid) = NoVoice
    THEN [err |-> "VoiceNotFoundError", cause |-> "none", about |-> vid,
          audio |-> FALSE, engine_calls |-> 0]
    ELSE LET raised == IF embed # "ok" THEN embed ELSE synth IN
         IF raised = "ok"
         THEN [err |-> "none", cause |-> "none", about |-> NoId,
               audio |-> TRUE, engine_calls |-> 2]
         ELSE [err |-> "SynthesisError", cause |-> raised, about |-> NoId,
               audio |-> FALSE, engine_calls |-> IF embed # "ok" THEN 1 ELSE 2]

\* mutant: the text is validated before the voice is looked up
SynthesizeMutant(vtbl, vid, text, embed, synth) ==
    IF IsBlank(text)
    THEN [err |-> "SynthesisError", cause |-> "Text cannot be empty",
          about |-> NoId, audio |-> FALSE, engine_calls |-> 0]
    ELSE IF VoiceStorageGet(vtbl, vid) = NoVoice
    THEN [err |-> "VoiceNotFoundError", cause |-> "none", about |-> vid,
          audio |-> FALSE, engine_calls |-> 0]
    ELSE [err |-> "none", cause |-> "none", about |-> NoId, audio |-> TRUE,
          engine_calls |-> 2]

\* mutant: without the `except VoiceNotFoundError: raise` clause, a not-found
\* error raised by the engine is wrapped like every other failure
SynthesizeWrapAllMutant(vtbl, vid, text, embed, synth) ==
    IF VoiceStorageGet(vtbl, vid) = NoVoice
    THEN [err |-> "VoiceNotFoundError", cause |-> "none", about |-> vid,
          audio |-> FALSE, engine_calls |-> 0]
    ELSE IF IsBlank(text)
    THEN [err |-> "SynthesisError", cause |-> "Text cannot be empty",
          about |-> NoId, audio |-> FALSE, engine_calls |-> 0]
    ELSE LET raised == IF embed # "ok" THEN embed ELSE synth
             calls == IF embed # "ok" THEN 1 ELSE 2
         IN
         IF raised = "ok"
         THEN [err |-> "none", cause |-> "none", about |-> NoId,
               audio |-> TRUE, engine_calls |-> calls]
         ELSE [err |-> "SynthesisError", cause |-> raised, about |-> NoId,
               audio |-> FALSE, engine_calls |-> calls]

\* VoiceService.synthesize: `embed` and `synth` are the outcomes of
\* compute_speaker_embedding and synthesize_speech
Synthesize(vtbl, vid, text, embed, synth) ==
    IF VoiceStorageGet(vtbl, vid) = NoVoice
    THEN [err |-> "VoiceNotFoundError", cause |-> "none", about |-> vid,
          audio |-> FALSE, engine_calls |-> 0]
    ELSE IF IsBlank(text)
    THEN [err |-> "SynthesisError", cause |-> "Text cannot be empty",
          about |-> NoId, audio |-> FALSE, engine_calls |-> 0]
    ELSE LET raised == IF embed # "ok" THEN embed ELSE synth
             calls == IF embed # "ok" THEN 1 ELSE 2
         IN
         IF raised = "ok"
         THEN [err |-> "none", cause |-> "none", about |-> NoId,
               audio |-> TRUE, engine_calls |-> calls]
         ELSE IF raised = "VoiceNotFoundError"
         THEN [err |-> "VoiceNotFoundError", cause |-> "none", about |-> NoId,
               audio |-> FALSE, engine_calls |-> calls]
         ELSE [err |-> "SynthesisError", cause |-> raised, about |-> NoId,
               audio |-> FALSE, engine_calls |-> calls]

\* the message an exception raised at the inference boundary was built with
EngineMessage == <<"b","o","o","m">>

\* the detail the classes of app/core/exceptions.py build from their message
DetailOf(kind, message) ==
    CASE kind = "EmbeddingComputationError" ->
            <<"Failed to compute speaker embedding: ">> \o message
      [] kind = "SynthesisError" -> <<"Speech synthesis failed: ">> \o message
      [] OTHER -> message

\* str(e) of a raised exception: the message of a plain Exception, and
\* "<status_code>: <detail>" of an HTTPException
StrOfException(kind) ==
    IF kind \in HttpExceptions
    THEN DecimalStr(StatusOf(kind)) \o <<": ">> \o DetailOf(kind, EngineMessage)
    ELSE EngineMessage

\* the detail of what synthesize raised: SynthesisError(str(e)) for a wrapped
\* failure, SynthesisError("Text cannot be empty") for blank text
SynthesizeDetail(r) ==
    IF r.err # "SynthesisError" THEN <<>>
    ELSE IF r.cause = "Text cannot be empty"
    THEN DetailOf("SynthesisError", <<"Text cannot be empty">>)
    ELSE DetailOf("SynthesisError", StrOfException(r.cause))

(***************************************************************************)
(* HTTP surface: app/api/routes/voices.py, app/models/schemas.py           *)
(***************************************************************************)
MinSampleRate == 8000
MaxSampleRate == 48000

\* SynthesizeRequest: text min_length=1, format wav|mp3, 8000 <= rate <= 48000
SynthesizeRequestValid(body) ==
    /\ Len(body.text) >= 1
    /\ body.format \in {"wav", "mp3"}
    /\ body.sample_rate >= MinSampleRate
    /\ body.sample_rate <= MaxSampleRate

\* request bodies: a valid one, blank text, and one violation of each
\* constraint of SynthesizeRequest
SynthesizeBodies ==
    { [text |-> <<"h","i">>, format |-> "wav", sample_rate |-> 22050],
      [text |-> <<" ">>, format |-> "mp3", sample_rate |-> 8000],
      [text |-> <<>>, format |-> "wav", sample_rate |-> 22050],
      [text |-> <<"h","i">>, format |-> "ogg", sample_rate |-> 22050],
      [text |-> <<"h","i">>, format |-> "wav", sample_rate |-> 7999] }

\* outcomes of compute_speaker_embedding and, when it returns, of
\* synthesize_speech
EnginePairs ==
    { <<"ok", "ok">>, <<"Exception", "ok">>, <<"VoiceNotFoundError", "ok">>,
      <<"ok", "Exception">>, <<"ok", "VoiceNotFoundError">> }

\* voice ids a request can name: every id generated so far and one never generated
VoiceIdInputs == 1..(MaxVoices + 1)

\* GET /voices/{voice_id}
GetVoiceMetadata(vid) ==
    LET r == GetVoice(voices, vid) IN
    /\ resp' = [op |-> "GET /voices/{id}", voice_id |-> vid, err |-> r.err,
                status |-> IF r.err = "none" THEN 200 ELSE StatusOf(r.err),
                about |-> r.about, filename |-> r.record.filename,
                engine_calls |-> 0, body_keys |-> BodyKeys(r.err)]
    /\ UNCHANGED <<callers, registers, firebaseApps, savers, fs, saveLog, users, voices, nextUid,
                   nextVid, now>>

\* POST /voices/{voice_id}/synthesize: the body is validated against
\* SynthesizeRequest before the handler runs
SynthesizeClonedVoice(vid, body, embed, synth) ==
    LET r == IF SynthesizeRequestValid(body)
             THEN Synthesize(voices, vid, body.text, embed, synth)
             ELSE [err |-> "RequestValidationError", cause |-> "none",
                   about |-> NoId, audio |-> FALSE, engine_calls |-> 0]
    IN
    /\ resp' = [op |-> "POST /voices/{id}/synthesize", voice_id |-> vid,
                body |-> body, err |-> r.err,
                status |-> IF r.err = "none" THEN 200 ELSE StatusOf(r.err),
                about |-> r.about, cause |-> r.cause, audio |-> r.audio,
                engine_calls |-> r.engine_calls, body_keys |-> BodyKeys(r.err)]
    /\ UNCHANGED <<callers, registers, firebaseApps, savers, fs, saveLog, users, voices, nextUid,
                   nextVid, now>>

\* texts handed to synthesize: empty, whitespace only, and with letters
TextInputs ==
    { <<>>, <<" ","\t","\n">>, <<"h","i">>, <<" ","h"," ">> }

\* voice_service.synthesize(voice_id, text), called on its own
SynthesizeCall(vid, text, embed, synth) ==
    LET r == Synthesize(voices, vid, text, embed, synth) IN
    /\ resp' = [op |-> "synthesize", voice_id |-> vid, text |-> text,
                err |-> r.err,
                status |-> IF r.err = "none" THEN 200 ELSE StatusOf(r.err),
                embed |-> embed, synth |-> synth,
                about |-> r.about, cause |-> r.cause, audio |-> r.audio,
                detail |-> SynthesizeDetail(r),
                engine_calls |-> r.engine_calls]
    /\ UNCHANGED <<callers, registers, firebaseApps, savers, fs, saveLog, users, voices, nextUid,
                   nextVid, now>>

\* bearer credentials of upload requests: none, a fresh token of each user id
\* under the service's key or another key, and a non-bearer scheme
NoHeader ==
    [given |-> FALSE, nparts |-> 0, scheme |-> <<>>,
     token |-> JwtEncode(NoPayload, OtherKey)]

UploadHeaders ==
    {NoHeader} \cup
    { [given |-> TRUE, nparts |-> 2, scheme |-> h[1],
       token |-> JwtEncode([sub |-> h[2], email |-> None,
                            exp |-> now + ACCESS_TOKEN_EXPIRE_MINUTES,
                            iat |-> now, type |-> "access"], h[3])] :
        h \in ({BearerUpper} \X (1..MaxUsers) \X {SECRET_KEY})
               \cup {<<BearerUpper, 1, OtherKey>>, <<Basic, 1, SECRET_KEY>>} }

\* the file systems a delete can meet: unlink succeeds
UnlinkOutcomes == {TRUE}

\* POST /voices: the file dependency, then the bearer dependency, then the
\* handler's call register_voice(user_id=..., file_content=..., filename=...,
\* name=..., description=...)
UploadVoiceSample(header, filename, content_type, content, embed, unlinkOk) ==
    LET fileErr == ValidateUploadedFile(filename, content_type)
        user == BearerUser(users, header, now)
        r == RegisterVoice(fs, voices, users, nextVid,
                 [user_id |-> user.user_id, file_content |-> content,
                  filename |-> filename, name |-> None, description |-> None],
                 embed, unlinkOk)
        err == IF fileErr # "none" THEN fileErr
               ELSE IF user = NoUser THEN "Unauthorized"
               ELSE r.err
        ran == fileErr = "none" /\ user # NoUser
    IN
    /\ (ran => r.n <= MaxVoices)
    /\ fs' = IF ran THEN r.dir ELSE fs
    /\ voices' = IF ran THEN r.tbl ELSE voices
    /\ nextVid' = IF ran THEN r.n ELSE nextVid
    /\ resp' = [op |-> "POST /voices", filename |-> filename,
                accepted |-> fileErr = "none",
                auth_user |-> IF fileErr = "none" THEN user.user_id ELSE NoId,
                embed |-> embed, err |-> err,
                status |-> IF err = "none" THEN HTTP_201_CREATED ELSE StatusOf(err),
                voice_id |-> IF ran THEN r.record.voice_id ELSE NoId,
                record |-> IF ran THEN r.record ELSE NoVoice,
                body_keys |-> BodyKeys(err)]
    /\ UNCHANGED <<callers, registers, firebaseApps, savers, saveLog, users, nextUid, now>>

\* voice_service.register_voice(file_content=..., filename=..., name=...),
\* called as its signature allows
RegisterVoiceCall(content, filename, name, embed, unlinkOk) ==
    LET r == RegisterVoice(fs, voices, users, nextVid,
                 [file_content |-> content, filename |-> filename,
                  name |-> name, description |-> None], embed, unlinkOk)
    IN
    /\ r.n <= MaxVoices
    /\ fs' = r.dir
    /\ voices' = r.tbl
    /\ nextVid' = r.n
    /\ resp' = [op |-> "register_voice", filename |-> filename, embed |-> embed,
                unlink_ok |-> unlinkOk,
                err |-> r.err, status |-> StatusOf(r.err), cause |-> r.cause,
                saved |-> r.saved, record |-> r.record]
    /\ UNCHANGED <<callers, registers, firebaseApps, savers, saveLog, users, nextUid, now>>

\* register_voice on a file system whose delete can fail (the file is held
\* open, the directory is read-only); the directory holds at most MaxFiles
RegisterVoiceFaulty(content, filename, name, embed, unlinkOk) ==
    /\ Cardinality(DOMAIN fs) < MaxFiles
    /\ RegisterVoiceCall(content, filename, name, embed, unlinkOk)

\* register_voice entered by caller p, called as its signature allows:
\* save_voice_file begins with file_path = upload_dir / filename, counter = 1
RegisterBegin(p, content, filename, embed) ==
    /\ registers[p].pc = "idle"
    /\ registers' = [registers EXCEPT ![p] =
            [pc |-> "check", filename |-> filename, content |-> content,
             file_path |-> filename, counter |-> 1, embed |-> embed,
             err |-> "none"]]
    /\ UNCHANGED <<callers, fs, saveLog, users, voices, nextUid, nextVid, now,
                   firebaseApps, savers, resp>>

\* one test of `while file_path.exists()` in caller p's save_voice_file, with
\* the loop body when the path exists
RegisterExists(p) ==
    /\ registers[p].pc = "check"
    /\ registers' = [registers EXCEPT ![p] =
            IF @.file_path \in DOMAIN fs
            THEN [@ EXCEPT !.file_path = NumberedName(@, registers[p].counter),
                           !.counter = @ + 1]
            ELSE [@ EXCEPT !.pc = "write"]]
    /\ UNCHANGED <<callers, fs, saveLog, users, voices, nextUid, nextVid, now,
                   firebaseApps, savers, resp>>

\* file_path.write_bytes(file_content): save_voice_file returns to caller p
RegisterWrite(p) ==
    /\ registers[p].pc = "write"
    /\ fs' = WriteBytes(fs, registers[p].file_path, registers[p].content)
    /\ registers' = [registers EXCEPT ![p].pc = "embed"]
    /\ UNCHANGED <<callers, saveLog, users, voices, nextUid, nextVid, now,
                   firebaseApps, savers, resp>>

\* await compute_speaker_embedding(file_path) returns or raises in caller p
RegisterEmbed(p) ==
    /\ registers[p].pc = "embed"
    /\ registers' = [registers EXCEPT ![p] =
            IF @.embed = "ok" THEN [@ EXCEPT !.pc = "create"]
            ELSE [@ EXCEPT !.pc = "cleanup", !.err = registers[p].embed]]
    /\ UNCHANGED <<callers, fs, saveLog, users, voices, nextUid, nextVid, now,
                   firebaseApps, savers, resp>>

\* storage.create(filename=..., file_path=..., ...) by caller p: the record
\* is persisted and returned, or the call raises
RegisterCreate(p) ==
    LET c == registers[p]
        r == VoiceStorageCreate(voices, users, nextVid,
                 RegisterCreateArgs([file_content |-> c.content,
                                     filename |-> c.filename], c.file_path))
    IN
    /\ c.pc = "create"
    /\ r.n <= MaxVoices
    /\ voices' = r.tbl
    /\ nextVid' = r.n
    /\ registers' = [registers EXCEPT ![p] =
            IF r.err = "none" THEN [@ EXCEPT !.pc = "done"]
            ELSE [@ EXCEPT !.pc = "cleanup", !.err = r.err]]
    /\ resp' = IF r.err = "none"
               THEN [op |-> "register_voice_step", caller |-> p,
                     err |-> "none", saved |-> c.file_path]
               ELSE resp
    /\ UNCHANGED <<callers, fs, saveLog, users, nextUid, now, firebaseApps,
                   savers>>

\* the except branch in caller p: unlink the saved path if it exists, raise
RegisterExcept(p) ==
    LET c == registers[p]
        clean == RegisterCleanup(fs, c.file_path, TRUE)
    IN
    /\ c.pc = "cleanup"
    /\ fs' = clean.dir
    /\ registers' = [registers EXCEPT ![p].pc = "done"]
    /\ resp' = [op |-> "register_voice_step", caller |-> p,
                err |-> "EmbeddingComputationError", saved |-> c.file_path]
    /\ UNCHANGED <<callers, saveLog, users, voices, nextUid, nextVid, now,
                   firebaseApps, savers>>

(***************************************************************************)
(* Sign-in: app/services/auth_service.py, app/api/routes/auth.py           *)
(***************************************************************************)
\* no token issued
NoToken == JwtEncode(NoPayload, OtherKey)

\* AuthService.verify_firebase_token: refused without an initialized app;
\* every failure of firebase_auth.verify_id_token is an authentication error
VerifyFirebaseToken(idt, apps) ==
    IF ~apps
    THEN [err |-> "AuthenticationError", info |-> idt, verifier_calls |-> 0]
    ELSE IF idt.verifies
    THEN [err |-> "none", info |-> idt, verifier_calls |-> 1]
    ELSE [err |-> "AuthenticationError", info |-> idt, verifier_calls |-> 1]

\* get_or_create_user_from_google on a store that may be out of reach:
\* the e-mail is checked before the store is touched
GetOrCreateFrom(tbl, n, info, t, storeFault) ==
    LET touched == IF Truthy(info.email) THEN 1 ELSE 0
        r == IF touched = 1 /\ storeFault
             THEN [err |-> "OperationalError", tbl |-> tbl, n |-> n,
                   user |-> NoUser]
             ELSE GetOrCreateUser(tbl, n, info, t)
    IN [err |-> r.err, tbl |-> r.tbl, n |-> r.n, user |-> r.user,
        store_calls |-> touched]

\* mutant: the is_firebase_token flag is ignored, every token goes to the
\* Google verifier
VerifyTokenAndGetUserMutant(tbl, n, idt, is_firebase, apps, t, storeFault) ==
    LET v == VerifyGoogleToken(idt) IN
    IF v.err # "none"
    THEN [err |-> v.err, tbl |-> tbl, n |-> n, user |-> NoUser,
          verifier_calls |-> 1, store_calls |-> 0]
    ELSE LET r == GetOrCreateFrom(tbl, n,
                      [email |-> idt.email, name |-> idt.name,
                       picture |-> idt.picture], t, storeFault)
         IN [err |-> r.err, tbl |-> r.tbl, n |-> r.n, user |-> r.user,
             verifier_calls |-> 1, store_calls |-> r.store_calls]

\* AuthService.verify_token_and_get_user(token, is_firebase_token)
VerifyTokenAndGetUser(tbl, n, idt, is_firebase, apps, t, storeFault) ==
    LET v == IF is_firebase
             THEN IF ~apps
                  THEN [err |-> "AuthenticationError", info |-> idt,
                        verifier_calls |-> 0]
                  ELSE VerifyFirebaseToken(idt, apps)
             ELSE [err |-> VerifyGoogleToken(idt).err, info |-> idt,
                   verifier_calls |-> 1]
    IN
    IF v.err # "none"
    THEN [err |-> v.err, tbl |-> tbl, n |-> n, user |-> NoUser,
          verifier_calls |-> v.verifier_calls, store_calls |-> 0]
    ELSE LET r == GetOrCreateFrom(tbl, n,
                      [email |-> idt.email, name |-> idt.name,
                       picture |-> idt.picture], t, storeFault)
         IN [err |-> r.err, tbl |-> r.tbl, n |-> r.n, user |-> r.user,
             verifier_calls |-> v.verifier_calls,
             store_calls |-> r.store_calls]

\* mutant: a validation error is not told from other exceptions
AuthStatusOfMutant(err) ==
    CASE err = "none" -> 200
      [] err = "AuthenticationError" -> HTTP_401_UNAUTHORIZED
      [] OTHER -> HTTP_500_INTERNAL_SERVER_ERROR

\* the except clauses of google_token_auth and verify_id_token
AuthStatusOf(err) ==
    CASE err = "none" -> 200
      [] err = "AuthenticationError" -> HTTP_401_UNAUTHORIZED
      [] err = "ValidationError" -> HTTP_400_BAD_REQUEST
      [] OTHER -> HTTP_500_INTERNAL_SERVER_ERROR

\* an Optional[bool] field of a request body, then `or False`
FlagOf(flag, default) ==
    CASE flag = "true" -> TRUE
      [] flag = "false" -> FALSE
      [] flag = "null" -> FALSE
      [] OTHER -> default

FlagInputs == {"true", "false", "null", "absent"}

\* identity assertions presented to the auth routes: accepted by the
\* verifier or not, of Google or of another issuer, with an e-mail, with an
\* empty one, with none
AuthIdTokens ==
    { [verifies |-> v[1], iss |-> v[2], email |-> e, name |-> None,
       picture |-> None] :
        v \in { <<TRUE, "accounts.google.com">>, <<TRUE, "example.org">>,
                <<FALSE, "accounts.google.com">> },
        e \in { <<"a","@","x">>, <<"b","@","x">>, <<>>, None } }

\* the handler of an auth route: `refresh` tells whether the handler also
\* mints a refresh token, `default` is the default of the body's flag
AuthHandler(op, idt, flag, default, refresh, storeFault) ==
    LET is_firebase == FlagOf(flag, default)
        r == VerifyTokenAndGetUser(users, nextUid, idt, is_firebase,
                                   firebaseApps, now, storeFault)
    IN
    /\ r.n <= MaxUsers
    /\ users' = r.tbl
    /\ nextUid' = r.n
    /\ resp' = [op |-> op, idt |-> idt, flag |-> flag,
                is_firebase |-> is_firebase, store_fault |-> storeFault,
                raised |-> r.err, status |-> AuthStatusOf(r.err),
                user |-> r.user,
                access |-> IF r.err = "none"
                           THEN CreateAccessToken(r.user, now) ELSE NoToken,
                refresh |-> IF r.err = "none" /\ refresh
                            THEN CreateRefreshToken(r.user, now) ELSE NoToken,
                verifier_calls |-> r.verifier_calls,
                store_calls |-> r.store_calls,
                body_keys |-> BodyKeys(IF r.err = "none" THEN "none"
                                       ELSE "HTTPException")]
    /\ UNCHANGED <<callers, registers, fs, saveLog, voices, nextVid, now, firebaseApps, savers>>

\* google_token_auth(request): firebase_token defaults to False
GoogleTokenAuth(idt, flag, storeFault) ==
    AuthHandler("google_token_auth", idt, flag, FALSE, FALSE, storeFault)

\* verify_id_token(request): is_firebase_token defaults to True
VerifyIdToken(idt, flag, storeFault) ==
    AuthHandler("verify_id_token", idt, flag, TRUE, TRUE, storeFault)

\* identities signing in while voices are exercised
SignInInputs ==
    [verifies : {TRUE}, iss : {"accounts.google.com"},
     email : { <<"a","@","x">>, <<"b","@","x">> }, name : {None},
     picture : {None}]

Next ==
    \/ \E idt \in SignInInputs : AuthenticateWithGoogleToken(idt)
    \/ \E uid \in 0..MaxUsers, f \in {<<"s",".","w">>} : VoiceCreate(uid, f)
    \/ \E uid \in 1..MaxUsers : DeleteUser(uid)
    \/ \E h \in UploadHeaders, f \in {<<"s",".","w">>, <<>>},
          ct \in ContentTypeInputs, c \in {"bytesA"},
          e \in {"ok", "Exception"}, ok \in UnlinkOutcomes :
            UploadVoiceSample(h, f, ct, c, e, ok)
    \/ \E c \in {"bytesA"}, f \in {<<"s",".","w">>}, n \in {None},
          e \in EngineOutcomes, ok \in UnlinkOutcomes :
            RegisterVoiceCall(c, f, n, e, ok)

\* sign-in, the voice store, upload and register
Spec == Init /\ [][Next]_vars

NextFaults ==
    \E c \in ContentInputs, f \in FilenameInputs, n \in {None, <<"n">>},
       e \in EngineOutcomes, ok \in BOOLEAN :
        RegisterVoiceFaulty(c, f, n, e, ok)

\* register_voice where deleting the saved file can fail
SpecFaults == Init /\ [][NextFaults]_vars

NextRegisterRace ==
    \/ \E p \in Registers, c \in ContentInputs,
          f \in {<<"s",".","w">>, <<"s","_","1",".","w">>},
          e \in {"ok", "Exception"} : RegisterBegin(p, c, f, e)
    \/ \E p \in Registers : RegisterExists(p)
    \/ \E p \in Registers : RegisterWrite(p)
    \/ \E p \in Registers : RegisterEmbed(p)
    \/ \E p \in Registers : RegisterCreate(p)
    \/ \E p \in Registers : RegisterExcept(p)

\* register_voice called by two callers at once, one call each
SpecRegisterRace == Init /\ [][NextRegisterRace]_vars

NextAuth ==
    \/ \E idt \in AuthIdTokens, f \in FlagInputs \ {"false"}, sf \in BOOLEAN :
            GoogleTokenAuth(idt, f, sf)
    \/ \E idt \in AuthIdTokens, f \in FlagInputs \ {"true"}, sf \in BOOLEAN :
            VerifyIdToken(idt, f, sf)

\* the handlers of the auth routes, with or without Firebase credentials
SpecAuth == InitAuth /\ [][NextAuth]_vars

(***************************************************************************)
(* Firebase initialization: AuthService._initialize_firebase               *)
(***************************************************************************)
\* the credential sources in the order the code tries them: Option 1, the
\* file named by FIREBASE_CREDENTIALS_PATH; Option 1b, serviceAccountKey.json
\* in the backend root; Option 2, key material from environment variables;
\* Option 3, the platform's default credentials
FirebaseSources ==
    <<"credentials_path", "default_file", "environment", "default_credentials">>

\* os.getenv("FIREBASE_PROJECT_ID", settings.FIREBASE_PROJECT_ID) is truthy
EnvProjectId(env) ==
    IF env.project_var = "unset" THEN env.settings_project_id
    ELSE env.project_var = "set"

\* the condition under which _initialize_firebase tries a source
SourceAvailable(env, s) ==
    CASE s = "credentials_path" -> env.path_set /\ env.path_exists
      [] s = "default_file" -> env.default_exists
      [] s = "environment" ->
            env.private_key /\ env.client_email /\ EnvProjectId(env)
      [] s = "default_credentials" -> env.settings_project_id

\* what the process is started with: the settings, the files on disk, the
\* environment variables, and for each source that can be tried whether
\* credentials.Certificate and firebase_admin.initialize_app return (ok) or
\* raise
FirebaseEnvs ==
    { env \in [path_set : BOOLEAN, path_exists : BOOLEAN,
               default_exists : BOOLEAN, private_key : BOOLEAN,
               client_email : BOOLEAN, project_var : {"unset", "empty", "set"},
               settings_project_id : BOOLEAN,
               ok : [{"credentials_path", "default_file", "environment",
                      "default_credentials"} -> BOOLEAN]] :
        /\ env.path_exists => env.path_set
        /\ \A s \in DOMAIN env.ok : env.ok[s] => SourceAvailable(env, s) }

RECURSIVE TrySources(_, _, _)
\* mutant: an exception raised by a source ends the initialization
TrySourcesMutant(env, i, attempted) ==
    IF i > Len(FirebaseSources)
    THEN [apps |-> FALSE, used |-> "none", attempted |-> attempted]
    ELSE LET s == FirebaseSources[i] IN
         IF SourceAvailable(env, s)
         THEN IF env.ok[s]
              THEN [apps |-> TRUE, used |-> s, attempted |-> Append(attempted, s)]
              ELSE [apps |-> FALSE, used |-> "none",
                    attempted |-> Append(attempted, s)]
         ELSE TrySources(env, i + 1, attempted)

\* the body of _initialize_firebase from source i on: a source whose
\* condition holds is tried, success returns, an exception is logged and the
\* next source follows
TrySources(env, i, attempted) ==
    IF i > Len(FirebaseSources)
    THEN [apps |-> FALSE, used |-> "none", attempted |-> attempted]
    ELSE LET s == FirebaseSources[i] IN
         IF SourceAvailable(env, s)
         THEN IF env.ok[s]
              THEN [apps |-> TRUE, used |-> s, attempted |-> Append(attempted, s)]
              ELSE TrySources(env, i + 1, Append(attempted, s))
         ELSE TrySources(env, i + 1, attempted)

\* AuthService._initialize_firebase: nothing is done when an app exists
InitializeFirebaseOf(apps, env) ==
    IF apps
    THEN [apps |-> TRUE, used |-> "none", attempted |-> <<>>]
    ELSE TrySources(env, 1, <<>>)

\* AuthService.__init__: self._initialize_firebase()
InitializeFirebase(env) ==
    LET r == InitializeFirebaseOf(firebaseApps, env) IN
    /\ firebaseApps' = r.apps
    /\ resp' = [op |-> "initialize_firebase", env |-> env,
                apps_before |-> firebaseApps, used |-> r.used,
                attempted |-> r.attempted,
                is_firebase_initialized |-> r.apps]
    /\ UNCHANGED <<callers, registers, savers, fs, saveLog, users, voices, nextUid, nextVid, now>>

NextFirebase == \E env \in FirebaseEnvs : InitializeFirebase(env)

\* the service is constructed, possibly more than once, in some environment
SpecFirebase == Init /\ [][NextFirebase]_vars

NextRoutes ==
    \/ \E idt \in SignInInputs : AuthenticateWithGoogleToken(idt)
    \/ \E uid \in 0..MaxUsers, f \in VoiceFilenameInputs : VoiceCreate(uid, f)
    \/ \E vid \in VoiceIdInputs : GetVoiceMetadata(vid)
    \/ \E vid \in VoiceIdInputs, b \in SynthesizeBodies, e \in EnginePairs :
            SynthesizeClonedVoice(vid, b, e[1], e[2])
    \/ \E vid \in VoiceIdInputs, t \in TextInputs,
          e \in {<<"ok", "ok">>, <<"Exception", "ok">>} :
            SynthesizeCall(vid, t, e[1], e[2])

\* the voice routes that read the store: metadata and synthesis
SpecRoutes == Init /\ [][NextRoutes]_vars

\* what the two engine calls of a synthesis can do: both return, or one of
\* them raises a plain exception, a not-found error or (the embedding call)
\* an embedding-computation error
SynthesisOutcomes == EnginePairs \cup { <<"EmbeddingComputationError", "ok">> }

NextSynthesis ==
    \/ \E idt \in SignInInputs : AuthenticateWithGoogleToken(idt)
    \/ \E uid \in 0..MaxUsers, f \in VoiceFilenameInputs : VoiceCreate(uid, f)
    \/ \E vid \in VoiceIdInputs, t \in TextInputs, e \in SynthesisOutcomes :
            SynthesizeCall(vid, t, e[1], e[2])

\* synthesis against the store while the engine succeeds or fails
SpecSynthesis == Init /\ [][NextSynthesis]_vars

NextUsers ==
    \/ \E e \in EmailInputs, n \in {None, <<"n">>}, p \in {None} :
            UserCreate(e, n, p)
    \/ \E e \in EmailInputs, n \in NameInputs, p \in PictureInputs :
            GetOrCreate(e, n, p)

\* the user store and get-or-create
SpecUsers == Init /\ [][NextUsers]_vars

\* sign-ins of two addresses, one of them in two casings, as time passes
ProfileEmails == { <<"a","@","x">>, <<"A","@","X">>, <<"b","@","x">> }

NextProfile ==
    \/ \E e \in ProfileEmails, n \in NameInputs, p \in PictureInputs :
            GetOrCreate(e, n, p)
    \/ Tick

\* get-or-create over time: profiles refreshed by later sign-ins
SpecProfile == Init /\ [][NextProfile]_vars

\* get_or_create_user_from_google entered by caller p: the e-mail is checked
\* and the user looked up (user_storage.get_by_email, a session of its own)
GetOrCreateLookup(p, email, name, picture) ==
    /\ callers[p].pc = "idle"
    /\ callers' = [callers EXCEPT ![p] =
            IF ~Truthy(email)
            THEN [pc |-> "done", email |-> email, name |-> name,
                  picture |-> picture, found |-> NoId,
                  err |-> "ValidationError", user |-> NoId]
            ELSE [pc |-> "looked_up", email |-> email, name |-> name,
                  picture |-> picture,
                  found |-> UserGetByEmail(users, email).user_id,
                  err |-> "none", user |-> NoId]]
    /\ UNCHANGED <<registers, fs, saveLog, users, voices, nextUid, nextVid, now,
                   firebaseApps, savers, resp>>

\* the rest of the call by caller p: update and re-fetch the user it found,
\* or create the user it did not find (user_storage.create, a session of its
\* own; the unique index on email refuses a second row)
GetOrCreateStore(p) ==
    LET c == callers[p]
        r == IF c.found # NoId
             THEN LET upd == UserStorageUpdate(users, c.found, c.name, c.picture)
                  IN  [err |-> "none", tbl |-> upd, n |-> nextUid,
                       user |-> UserGet(upd, c.found)]
             ELSE UserStorageCreate(users, nextUid, c.email, c.name, c.picture,
                                    Google, now)
    IN
    /\ c.pc = "looked_up"
    /\ r.n <= MaxUsers
    /\ users' = r.tbl
    /\ nextUid' = r.n
    /\ callers' = [callers EXCEPT ![p].pc = "done", ![p].err = r.err,
                                  ![p].user = r.user.user_id]
    /\ resp' = [op |-> "get_or_create", email |-> c.email, name |-> c.name,
                picture |-> c.picture, err |-> r.err, user |-> r.user]
    /\ UNCHANGED <<registers, fs, saveLog, voices, nextVid, now, firebaseApps,
                   savers>>

NextSignInRace ==
    \/ \E p \in Callers, e \in ProfileEmails \cup {None}, n \in NameInputs :
            GetOrCreateLookup(p, e, n, None)
    \/ \E p \in Callers : GetOrCreateStore(p)

\* get-or-create called by two callers at once, one call each
SpecSignInRace == Init /\ [][NextSignInRace]_vars

\* Authorization headers met by the bearer dependency: none or empty; of
\* zero, one or three parts; and two parts with the scheme in several
\* casings or another scheme and a token that is valid, expired, signed
\* under another key, or of a subject the store does not hold
BearerMixed == <<"B","e","a","r","e","r">>

HeaderInputs ==
    LET fresh == JwtEncode([sub |-> 1, email |-> None,
                            exp |-> now + ACCESS_TOKEN_EXPIRE_MINUTES,
                            iat |-> now, type |-> "access"], SECRET_KEY)
    IN {NoHeader}
       \cup { [given |-> TRUE, nparts |-> n, scheme |-> BearerMixed,
               token |-> fresh] : n \in {0, 1, 3} }
       \cup { [given |-> TRUE, nparts |-> 2, scheme |-> sc, token |-> tok] :
               sc \in {Bearer, BearerMixed, BearerUpper, Basic},
               tok \in { k \in TokenInputs :
                           /\ k.payload.type = "access"
                           /\ k.payload.exp <= MaxTime } }

\* the dependency get_current_user(authorization), resolved on its own
BearerDependency(header) ==
    LET user == BearerUser(users, header, now) IN
    /\ resp' = [op |-> "bearer", header |-> header,
                status |-> IF user = NoUser THEN HTTP_401_UNAUTHORIZED ELSE 200,
                user |-> user]
    /\ UNCHANGED <<callers, registers, firebaseApps, savers, fs, saveLog, users, voices, nextUid,
                   nextVid, now>>

\* the refresh tokens create_refresh_token has issued to the stored users
IssuedRefreshTokens ==
    { CreateRefreshToken(users[u], i) :
        u \in DOMAIN users, i \in {t \in IssueTimes : t <= now} }

NextTokens ==
    \/ \E idt \in IdTokenInputs : AuthenticateWithGoogleToken(idt)
    \/ \E tok \in TokenInputs : GetCurrentUser(tok)
    \/ \E tok \in IssuedRefreshTokens : GetCurrentUser(tok)
    \/ \E h \in HeaderInputs : BearerDependency(h)
    \/ \E uid \in 1..MaxUsers : DeleteUser(uid)
    \/ Tick

\* sign-in, session tokens and the clock
SpecTokens == Init /\ [][NextTokens]_vars

\* the upper-case letter of each lower-case letter
ToUpper ==
    [c \in { LowerChars[i] : i \in DOMAIN LowerChars } |->
        UpperChars[CHOOSE i \in DOMAIN LowerChars : LowerChars[i] = c]]

UpperChar(c) == IF c \in DOMAIN ToUpper THEN ToUpper[c] ELSE c

\* letter casings of a text: as it is, all upper case, one character upper case
CaseVariants(s) ==
    {s, [i \in DOMAIN s |-> UpperChar(s[i])]}
        \cup { [s EXCEPT ![i] = UpperChar(s[i])] : i \in DOMAIN s }

\* content types outside the allow-list: empty, other media types, and
\* allow-listed strings cut short, extended or padded
OtherContentTypes ==
    { <<>>, <<"t","e","x","t","/","p","l","a","i","n">>,
      <<"a","u","d","i","o","/">>, <<"a","u","d","i","o">>,
      <<"a","u","d","i","o","/","w","a">>,
      <<"a","u","d","i","o","/","w","a","v","x">>,
      <<" ","a","u","d","i","o","/","w","a","v">>,
      <<"a","u","d","i","o","/","w","a","v",";">>,
      <<"a","u","d","i","o","/","a","a","c">>,
      <<"v","i","d","e","o","/","m","p","4">>,
      <<"A","U","D","I","O","/","A","A","C">> }

\* content types handed to validate_audio_file
MimeInputs ==
    UNION { CaseVariants(t) : t \in ValidTypes } \cup OtherContentTypes

\* validate_audio_file(content_type), called on its own
ValidateAudioFileCall(content_type) ==
    /\ resp' = [op |-> "validate_audio_file", content_type |-> content_type,
                result |-> ValidateAudioFile(content_type)]
    /\ UNCHANGED <<callers, registers, firebaseApps, savers, fs, saveLog, users, voices, nextUid,
                   nextVid, now>>

\* validate_uploaded_file(file), called on its own
ValidateUploadedFileCall(filename, content_type) ==
    LET err == ValidateUploadedFile(filename, content_type) IN
    /\ resp' = [op |-> "validate_uploaded_file", filename |-> filename,
                content_type |-> content_type, err |-> err,
                status |-> IF err = "none" THEN 200 ELSE StatusOf(err)]
    /\ UNCHANGED <<callers, registers, firebaseApps, savers, fs, saveLog, users, voices, nextUid,
                   nextVid, now>>

NextMime ==
    \/ \E ct \in MimeInputs : ValidateAudioFileCall(ct)
    \/ \E f \in {<<"s",".","w">>, <<>>, None}, ct \in MimeInputs \cup {None} :
            ValidateUploadedFileCall(f, ct)

\* the content-type check of uploads
SpecMime == Init /\ [][NextMime]_vars

(***************************************************************************)
(* Properties                                                              *)
(***************************************************************************)
\* two characters that are the same letter, whatever their case
SameLetter(c, d) ==
    \/ c = d
    \/ \E k \in DOMAIN UpperChars : {c, d} = {UpperChars[k], LowerChars[k]}

\* two texts equal up to letter case
EqualUpToCase(a, b) ==
    /\ Len(a) = Len(b)
    /\ \A i \in DOMAIN a : SameLetter(a[i], b[i])

\* a text without upper-case letters
IsLowerCase(a) ==
    \A i \in DOMAIN a : \A k \in DOMAIN UpperChars : a[i] # UpperChars[k]

\* the ids of the users whose stored e-mail equals e up to letter case
UsersWithEmail(tbl, e) == { u \in DOMAIN tbl : EqualUpToCase(tbl[u].email, e) }

(***************************************************************************)
(* C2: an authenticated POST /voices with an allowed audio MIME type and a *)
(* working embedding computation answers 201 with a non-empty voice_id,    *)
(* persists exactly one new voice record holding the uploaded file name    *)
(* and the saved file's path, and GET /voices/{voice_id} then returns that *)
(* file name.                                                              *)
(***************************************************************************)
C2_UploadRegistersVoice ==
    [][(/\ resp'.op = "POST /voices"
        /\ resp'.accepted
        /\ resp'.auth_user # NoId
        /\ resp'.embed = "ok")
       => /\ resp'.status = HTTP_201_CREATED
          /\ resp'.voice_id # NoId
          /\ resp'.voice_id \notin DOMAIN voices
          /\ DOMAIN voices' = DOMAIN voices \cup {resp'.voice_id}
          /\ voices'[resp'.voice_id].filename = resp'.filename
          /\ voices'[resp'.voice_id].file_path \in DOMAIN fs'
          /\ GetVoice(voices', resp'.voice_id).record.filename = resp'.filename
      ]_vars

(***************************************************************************)
(* C3: the voice record an upload creates is owned by the user the         *)
(* request's bearer token resolves to, and no voice record is without an   *)
(* owning user.                                                            *)
(***************************************************************************)
C3_UploadedVoiceOwnedByRequester ==
    /\ (/\ resp.op = "POST /voices"
        /\ resp.accepted
        /\ resp.auth_user # NoId
        /\ resp.embed = "ok")
       => /\ resp.voice_id \in DOMAIN voices
          /\ voices[resp.voice_id].user_id = resp.auth_user
    /\ \A v \in DOMAIN voices : voices[v].user_id \in DOMAIN users

C5_GetOrCreateIdempotent ==
    [][(resp'.op = "get_or_create" /\ Truthy(resp'.email))
       => LET before == UsersWithEmail(users, resp'.email)
              after == UsersWithEmail(users', resp'.email)
          IN /\ resp'.err = "none"
             /\ after = {resp'.user.user_id}
             /\ before # {} => (before = after /\ DOMAIN users' = DOMAIN users)
             /\ before = {} => DOMAIN users' = DOMAIN users \cup after
      ]_vars

\* a second sign-in whose e-mail differs from the stored one in letter case
C5_Witness ==
    /\ resp.op = "get_or_create"
    /\ resp.err = "none"
    /\ resp.email # resp.user.email
    /\ resp.user.user_id < nextUid

(***************************************************************************)
(* C6: UserStorage.create with an e-mail that, lower-cased, is the e-mail  *)
(* of an existing user fails and leaves the user store unchanged; no two   *)
(* users ever share a lower-cased e-mail.                                  *)
(***************************************************************************)
C6_EmailUnique ==
    /\ [](\A u, w \in DOMAIN users :
            EqualUpToCase(users[u].email, users[w].email) => u = w)
    /\ [][(/\ resp'.op = "user_create"
           /\ resp'.email # None
           /\ UsersWithEmail(users, resp'.email) # {})
          => (resp'.err # "none" /\ users' = users /\ resp'.user = NoUser)
         ]_vars

\* a create refused for an e-mail that differs from the stored one in case
C6_Witness ==
    /\ resp.op = "user_create"
    /\ resp.err = "IntegrityError"
    /\ \A u \in DOMAIN users : users[u].email # resp.email
    /\ UsersWithEmail(users, resp.email) # {}

(***************************************************************************)
(* C7: after UserStorage.create(E) succeeds, get_by_email(E') returns the  *)
(* created user for every E' equal to E up to letter case, get(user_id)    *)
(* returns the same user, and the stored e-mail is E in lower case.        *)
(***************************************************************************)
C7_CreatedUserRetrievable ==
    (resp.op = "user_create" /\ resp.err = "none")
    => /\ resp.user # NoUser
       /\ \A e \in EmailInputs \ {None} :
            EqualUpToCase(e, resp.email) => UserGetByEmail(users, e) = resp.user
       /\ UserGet(users, resp.user.user_id) = resp.user
       /\ EqualUpToCase(resp.user.email, resp.email)
       /\ IsLowerCase(resp.user.email)

\* a user created from an e-mail with upper-case letters
C7_Witness ==
    /\ resp.op = "user_create"
    /\ resp.err = "none"
    /\ ~IsLowerCase(resp.email)
    /\ Cardinality(DOMAIN users) = 2

(***************************************************************************)
(* C8: get_current_user(token) returns the user U exactly when the token   *)
(* is signed under the configured key, is not past its expiry and its      *)
(* subject is the id of U in the store; otherwise it returns None, and it  *)
(* never raises.  An access token just minted for U resolves to U.         *)
(***************************************************************************)
C8_TokenAccepted(token) ==
    /\ token.sig.key = SECRET_KEY
    /\ token.sig.over = token.payload
    /\ now <= token.payload.exp
    /\ token.payload.sub \in DOMAIN users

C8_CurrentUser ==
    /\ resp.op = "get_current_user"
       => /\ resp.err = "none"
          /\ C8_TokenAccepted(resp.token)
               => resp.user = users[resp.token.payload.sub]
          /\ ~C8_TokenAccepted(resp.token) => resp.user = NoUser
    /\ (resp.op = "authenticate" /\ resp.err = "none")
       => /\ resp.user # NoUser
          /\ GetCurrentUserOf(users, resp.token, now) = resp.user

\* a token issued earlier and still within its lifetime resolves to its user
C8_Witness ==
    /\ resp.op = "get_current_user"
    /\ resp.user # NoUser
    /\ resp.token.payload.iat < now
    /\ Cardinality(DOMAIN users) < nextUid

(***************************************************************************)
(* C9: deleting a user cascades to the user's voices: list_by_user of the  *)
(* deleted id is empty, get of every voice the user owned is absent, and   *)
(* the voices of other users are as before.                                *)
(***************************************************************************)
C9_DeleteUserCascades ==
    [][resp'.op = "delete_user"
       => /\ VoiceStorageListByUser(voices', resp'.user_id) = {}
          /\ \A v \in DOMAIN voices :
                IF voices[v].user_id = resp'.user_id
                THEN VoiceStorageGet(voices', v) = NoVoice
                ELSE v \in DOMAIN voices' /\ voices'[v] = voices[v]
      ]_vars

\* a user owning a voice was deleted while another user's voice stays
C9_Witness ==
    /\ resp.op = "delete_user"
    /\ resp.owned # {}
    /\ voices # <<>>

C11_EmptyOrWhitespace(text) ==
    Len(text) = 0 \/ \A i \in 1..Len(text) : text[i] \in {" ", "\t", "\n"}

C12_AllowList ==
    { <<"a","u","d","i","o","/","w","a","v">>,
      <<"a","u","d","i","o","/","w","a","v","e">>,
      <<"a","u","d","i","o","/","x","-","w","a","v">>,
      <<"a","u","d","i","o","/","m","p","e","g">>,
      <<"a","u","d","i","o","/","m","p","3">>,
      <<"a","u","d","i","o","/","m","p","4">>,
      <<"a","u","d","i","o","/","x","-","m","4","a">>,
      <<"a","u","d","i","o","/","m","4","a">>,
      <<"a","u","d","i","o","/","o","g","g">>,
      <<"a","u","d","i","o","/","w","e","b","m">>,
      <<"a","u","d","i","o","/","f","l","a","c">> }

C12_Allowed(content_type) ==
    \E a \in C12_AllowList : EqualUpToCase(content_type, a)

C12_AllowListExact ==
    /\ Cardinality(C12_AllowList) = 11
    /\ resp.op = "validate_audio_file"
       => (resp.result <=> C12_Allowed(resp.content_type))
    /\ (resp.op = "validate_uploaded_file" /\ Truthy(resp.filename))
       => (resp.err = "none" <=> (/\ resp.content_type # None
                                  /\ C12_Allowed(resp.content_type)))

\* an allow-listed type in mixed case is accepted
C12_Witness ==
    /\ resp.op = "validate_audio_file"
    /\ resp.result
    /\ ~IsLowerCase(resp.content_type)
    /\ \E i \in DOMAIN resp.content_type :
          resp.content_type[i] \in DOMAIN ToUpper

(***************************************************************************)
(* C14: the bearer dependency answers 401 and yields no user when the      *)
(* Authorization header is missing, does not consist of exactly two parts, *)
(* has a scheme other than "bearer" up to letter case, carries a token     *)
(* that is invalid or expired, or a token whose subject is not in the user *)
(* store; in every other case it yields the user of the token's subject.   *)
(***************************************************************************)
C14_Refused(h) ==
    \/ ~h.given
    \/ h.nparts # 2
    \/ ~EqualUpToCase(h.scheme, <<"b","e","a","r","e","r">>)
    \/ h.token.sig.key # SECRET_KEY
    \/ h.token.sig.over # h.token.payload
    \/ h.token.payload.exp < now
    \/ h.token.payload.sub \notin DOMAIN users

C14_BearerDependency ==
    resp.op = "bearer"
    => IF C14_Refused(resp.header)
       THEN resp.status = HTTP_401_UNAUTHORIZED /\ resp.user = NoUser
       ELSE /\ resp.status # HTTP_401_UNAUTHORIZED
            /\ resp.user = users[resp.header.token.payload.sub]

\* a token issued earlier, presented under the scheme BEARER, yields its user
C14_Witness ==
    /\ resp.op = "bearer"
    /\ resp.user # NoUser
    /\ resp.header.scheme = BearerUpper
    /\ resp.header.token.payload.iat < now

(***************************************************************************)
(* C18: when the name given to save_voice_file and its numbered names      *)
(* stem_1.ext .. stem_{k-1}.ext exist in the directory (k >= 1) and        *)
(* stem_k.ext does not, the file is stored as stem_k.ext: the original     *)
(* stem with one numeric suffix before the extension.                      *)
(***************************************************************************)
C18_NumberedSuffix ==
    [][resp'.op = "save_voice_file"
       => LET saved == saveLog'[Len(saveLog')]
              name == saved.filename
          IN \A k \in 1..(MaxSaves + 1) :
                (/\ name \in DOMAIN fs
                 /\ \A j \in 1..(k - 1) : NumberedName(name, j) \in DOMAIN fs
                 /\ NumberedName(name, k) \notin DOMAIN fs)
                => saved.path = NumberedName(name, k)
      ]_vars

(***************************************************************************)
(* C19: save_voice_file is not safe under concurrency.  When two calls for *)
(* the same file name both find their path free before either has written, *)
(* both return the same path, the second write replaces the first, and the *)
(* file holds the bytes of the second writer only.                         *)
(***************************************************************************)
C19_BothDone == \A p \in Savers : savers[p].pc = "done"

C19_RaceClobbers ==
    (/\ C19_BothDone
     /\ savers[1].filename = savers[2].filename
     /\ savers[1].seen = savers[2].seen)
    => /\ savers[1].file_path = savers[2].file_path
       /\ Len(saveLog) = 2
       /\ saveLog[1].path = saveLog[2].path
       /\ ~saveLog[1].existed
       /\ saveLog[2].existed
       /\ fs[saveLog[2].path] = saveLog[2].content

\* two uploads of different bytes returned one path; the first one's bytes
\* are in no file
C19_Witness ==
    /\ C19_BothDone
    /\ saveLog[1].path = saveLog[2].path
    /\ saveLog[1].content # saveLog[2].content
    /\ fs[saveLog[2].path] = saveLog[2].content
    /\ \A p \in DOMAIN fs : fs[p] # saveLog[1].content

(***************************************************************************)
(* C20: if, in register_voice's cleanup after an embedding failure, the    *)
(* delete of the saved file itself fails, the delete failure is swallowed: *)
(* the caller still receives the embedding-computation error.              *)
(***************************************************************************)
C20_DeleteFailureSwallowed ==
    (/\ resp.op = "register_voice"
     /\ resp.embed # "ok"
     /\ ~resp.unlink_ok)
    => /\ resp.err = "EmbeddingComputationError"
       /\ resp.cause = resp.embed

(***************************************************************************)
(* C15: every response of the service whose status is not 2xx, whatever    *)
(* route and failure produced it (request-body validation failures         *)
(* included), has a JSON body of the form {"error": ..., "detail": ...}.   *)
(***************************************************************************)
C15_ErrorEnvelope ==
    (/\ "body_keys" \in DOMAIN resp
     /\ (resp.status < 200 \/ resp.status > 299))
    => resp.body_keys = {"error", "detail"}

(***************************************************************************)
(* C13: the handlers of POST /auth/google/token and POST /auth/verify map  *)
(* every failure of the authentication flow to exactly one status: 401     *)
(* when an authentication error is raised (token refused, Firebase not     *)
(* initialized), 400 when a validation error is raised (no e-mail), 500    *)
(* for any other exception; a success is returned only when nothing was    *)
(* raised.                                                                 *)
(***************************************************************************)
C13_AuthHandlers == {"google_token_auth", "verify_id_token"}

\* whether the identity provider's check of the assertion succeeds
C13_Verified(r) ==
    IF r.is_firebase THEN firebaseApps /\ r.idt.verifies
    ELSE r.idt.verifies
         /\ r.idt.iss \in {"accounts.google.com", "https://accounts.google.com"}

C13_HasEmail(r) == r.idt.email # None /\ r.idt.email # <<>>

C13_AuthStatusMapping ==
    resp.op \in C13_AuthHandlers
    => /\ resp.raised = "AuthenticationError" => resp.status = 401
       /\ resp.raised = "ValidationError" => resp.status = 400
       /\ resp.raised \notin {"none", "AuthenticationError", "ValidationError"}
            => resp.status = 500
       /\ resp.status = 200 <=> resp.raised = "none"
       /\ resp.status = (IF ~C13_Verified(resp) THEN 401
                         ELSE IF ~C13_HasEmail(resp) THEN 400
                         ELSE IF resp.store_fault THEN 500
                         ELSE 200)
       /\ resp.status # 200 => (resp.access = NoToken /\ resp.user = NoUser)

\* a verified assertion without e-mail, answered 400 by a store holding users
C13_Witness ==
    /\ resp.op = "google_token_auth"
    /\ resp.status = 400
    /\ resp.raised = "ValidationError"
    /\ ~resp.is_firebase
    /\ users # <<>>

(***************************************************************************)
(* C16: when a Firebase token is presented and Firebase is not             *)
(* initialized, verify_token_and_get_user fails with an authentication     *)
(* error before any token verification or user-store access: no user is    *)
(* looked up, created or updated and no session token is issued.           *)
(***************************************************************************)
C16_FirebaseUninitialized ==
    [][(/\ resp'.op \in C13_AuthHandlers
        /\ resp'.is_firebase
        /\ ~firebaseApps)
       => /\ resp'.raised = "AuthenticationError"
          /\ resp'.verifier_calls = 0
          /\ resp'.store_calls = 0
          /\ users' = users
          /\ nextUid' = nextUid
          /\ resp'.user = NoUser
          /\ resp'.access = NoToken
          /\ resp'.refresh = NoToken
      ]_vars

\* a Firebase token that would verify, for an e-mail the store holds,
\* refused because Firebase is not initialized
C16_Witness ==
    /\ resp.op = "verify_id_token"
    /\ resp.flag = "absent"
    /\ resp.is_firebase
    /\ ~firebaseApps
    /\ resp.idt.verifies
    /\ resp.idt.iss = "accounts.google.com"
    /\ UsersWithEmail(users, resp.idt.email) # {}
    /\ resp.raised = "AuthenticationError"

(***************************************************************************)
(* C17: when a successfully verified identity assertion carries no e-mail  *)
(* (absent or empty), get-or-create fails with a validation error (HTTP    *)
(* 400), the user store is left unchanged, and no access or refresh token  *)
(* is issued.                                                              *)
(***************************************************************************)
C17_NoEmailRefused ==
    [][(/\ resp'.op \in C13_AuthHandlers
        /\ C13_Verified(resp')
        /\ ~C13_HasEmail(resp'))
       => /\ resp'.raised = "ValidationError"
          /\ resp'.status = HTTP_400_BAD_REQUEST
          /\ users' = users
          /\ nextUid' = nextUid
          /\ resp'.store_calls = 0
          /\ resp'.access = NoToken
          /\ resp'.refresh = NoToken
      ]_vars

\* a verified Firebase assertion with an empty e-mail, the store holding users
C17_Witness ==
    /\ resp.op = "verify_id_token"
    /\ resp.is_firebase
    /\ firebaseApps
    /\ resp.idt.verifies
    /\ resp.idt.email = <<>>
    /\ resp.status = HTTP_400_BAD_REQUEST
    /\ users # <<>>

(***************************************************************************)
(* C21: when get-or-create finds an existing user, only non-null claims    *)
(* overwrite: name (resp. picture) is replaced by the fresh claim when     *)
(* that claim is non-null and is left unchanged when it is null; user_id,  *)
(* email, provider and created_at are never changed, and the returned      *)
(* record is the re-fetched stored state.                                  *)
(***************************************************************************)
C21_FoundUser(r) ==
    /\ r.op = "get_or_create"
    /\ Truthy(r.email)
    /\ UserGetByEmail(users, r.email) # NoUser

C21_OnlyNonNullOverwrite ==
    [][C21_FoundUser(resp')
       => LET old == UserGetByEmail(users, resp'.email)
              new == UserGet(users', old.user_id)
          IN  /\ resp'.err = "none"
              /\ new.name = (IF resp'.name # None THEN resp'.name ELSE old.name)
              /\ new.picture = (IF resp'.picture # None THEN resp'.picture
                                ELSE old.picture)
              /\ new.user_id = old.user_id
              /\ new.email = old.email
              /\ new.provider = old.provider
              /\ new.created_at = old.created_at
              /\ resp'.user = new
              /\ DOMAIN users' = DOMAIN users
              /\ \A u \in DOMAIN users :
                    u # old.user_id => users'[u] = users[u]
      ]_vars

\* a user created earlier with a name and a picture is found again, at a later
\* time, by claims whose name is null and whose picture is not
C21_Witness ==
    /\ resp.op = "get_or_create"
    /\ resp.err = "none"
    /\ resp.name = None
    /\ resp.picture # None
    /\ resp.user.name # None
    /\ resp.user.picture = resp.picture
    /\ resp.user.created_at < now
    /\ nextUid > 1

(***************************************************************************)
(* C22: in synthesize, for an existing voice and non-blank text, a         *)
(* not-found error raised inside the embedding/synthesis step propagates   *)
(* unchanged, and every other failure raised there (including an           *)
(* embedding-computation error from the inference boundary) is reported    *)
(* as a synthesis error (HTTP 500) whose message carries the underlying    *)
(* failure's message; synthesize never returns audio bytes after such a    *)
(* failure.                                                                *)
(***************************************************************************)
C22_Carries(message, detail) ==
    \E i \in 0..(Len(detail) - Len(message)) :
        SubSeq(detail, i + 1, i + Len(message)) = message

C22_Raised(r) == IF r.embed # "ok" THEN r.embed ELSE r.synth

C22_EngineFailureReported ==
    (/\ resp.op = "synthesize"
     /\ resp.voice_id \in DOMAIN voices
     /\ ~C11_EmptyOrWhitespace(resp.text)
     /\ C22_Raised(resp) # "ok")
    => /\ ~resp.audio
       /\ IF C22_Raised(resp) = "VoiceNotFoundError"
          THEN /\ resp.err = "VoiceNotFoundError"
               /\ resp.status = HTTP_404_NOT_FOUND
               /\ resp.about = NoId
          ELSE /\ resp.err = "SynthesisError"
               /\ resp.status = HTTP_500_INTERNAL_SERVER_ERROR
               /\ resp.cause = C22_Raised(resp)
               /\ C22_Carries(EngineMessage, resp.detail)

\* the embedding call raises an embedding-computation error for a stored voice
C22_Witness ==
    /\ resp.op = "synthesize"
    /\ resp.voice_id \in DOMAIN voices
    /\ resp.text = <<" ","h"," ">>
    /\ resp.embed = "EmbeddingComputationError"
    /\ resp.err = "SynthesisError"
    /\ Len(resp.detail) > Len(EngineMessage)

(***************************************************************************)
(* C24: a token is accepted as a bearer credential only if its type tag    *)
(* is "access": a refresh token issued by create_refresh_token, presented  *)
(* to get_current_user, resolves to unauthenticated rather than to its     *)
(* user.                                                                   *)
(***************************************************************************)
C24_OnlyAccessTokensAccepted ==
    (/\ resp.op = "get_current_user"
     /\ resp.token.payload.type # "access")
    => resp.user = NoUser

(***************************************************************************)
(* C23: Firebase initialization at startup tries the credential sources    *)
(* in the fixed order explicit file path, default serviceAccountKey.json,  *)
(* environment-variable key material, ambient platform credentials: the    *)
(* first source that is available and initializes successfully is used     *)
(* and no later source is attempted; a source that is unavailable or       *)
(* fails falls through to the next; the trust context is initialized at    *)
(* most once, and it stays uninitialized only if every source was          *)
(* unavailable or failed.                                                  *)
(***************************************************************************)
C23_Order ==
    <<"credentials_path", "default_file", "environment", "default_credentials">>

\* the positions, in the fixed order, of the sources that would initialize
C23_Usable(env) ==
    { i \in 1..4 : SourceAvailable(env, C23_Order[i]) /\ env.ok[C23_Order[i]] }

C23_First(env) == CHOOSE i \in C23_Usable(env) : \A j \in C23_Usable(env) : i <= j

\* the available sources at positions 1..last, in order
C23_AvailableUpTo(env, last) ==
    LET F[i \in 0..4] ==
            IF i = 0 THEN <<>>
            ELSE IF i <= last /\ SourceAvailable(env, C23_Order[i])
                 THEN Append(F[i - 1], C23_Order[i])
                 ELSE F[i - 1]
    IN F[4]

C23_FirebaseInitOrder ==
    [][resp'.op = "initialize_firebase"
       => IF firebaseApps
          THEN /\ firebaseApps'
               /\ resp'.attempted = <<>>
               /\ resp'.used = "none"
          ELSE IF C23_Usable(resp'.env) = {}
          THEN /\ ~firebaseApps'
               /\ resp'.used = "none"
               /\ resp'.attempted = C23_AvailableUpTo(resp'.env, 4)
          ELSE /\ firebaseApps'
               /\ resp'.used = C23_Order[C23_First(resp'.env)]
               /\ resp'.attempted =
                      C23_AvailableUpTo(resp'.env, C23_First(resp'.env))
      ]_vars

\* the explicit file fails, the default file is absent, and the environment
\* key material initializes while default credentials were also available
C23_Witness ==
    /\ resp.op = "initialize_firebase"
    /\ ~resp.apps_before
    /\ resp.attempted = <<"credentials_path", "environment">>
    /\ resp.used = "environment"
    /\ SourceAvailable(resp.env, "default_credentials")
    /\ firebaseApps

(***************************************************************************)
(* C25: under every interleaving of two concurrent get-or-create calls     *)
(* for the same previously unknown email, both calls return the same user  *)
(* and the store ends with exactly one user for that email; neither call   *)
(* fails because the other created the user between its lookup and its     *)
(* create.                                                                 *)
(***************************************************************************)
C25_ConcurrentGetOrCreate ==
    \A p, q \in Callers :
        (/\ p # q
         /\ callers[p].pc = "done"
         /\ callers[q].pc = "done"
         /\ Truthy(callers[p].email)
         /\ Truthy(callers[q].email)
         /\ Lower(callers[p].email) = Lower(callers[q].email))
        => /\ callers[p].err = "none"
           /\ callers[q].err = "none"
           /\ callers[p].user = callers[q].user
           /\ callers[p].user \in DOMAIN users
           /\ Cardinality({ u \in DOMAIN users :
                  users[u].email = Lower(callers[p].email) }) = 1

(***************************************************************************)
(* C27: after any register_voice call that returns an error, whether the   *)
(* failure arose in embedding computation or in persisting the voice       *)
(* record, the file that call saved is no longer in the upload directory:  *)
(* in every state with no register in progress, each file written by       *)
(* register_voice is referenced by a persisted voice record (no orphan     *)
(* uploads).                                                               *)
(***************************************************************************)
C27_Referenced(tbl, path) == \E v \in DOMAIN tbl : tbl[v].file_path = path

C26_HoldsUpload(path, content) == path \in DOMAIN fs /\ fs[path] = content

====
